---- MODULE Spec2Model ----
(***************************************************************************)
(* gcpeasy: a CLI wrapper around gcloud and kubectl.                       *)
(*                                                                         *)
(* The world the tool acts on (gcloud account, gcloud project, kubectl     *)
(* context, the projects, clusters and pods the external tools report) is  *)
(* the persistent state.  Every command handler is one action; what the    *)
(* handler did (external invocations, lines read from stdin, messages      *)
(* printed, returned error, exit status) is recorded for the last command. *)
(*                                                                         *)
(* Strings that the code parses or matches are sequences of tokens: a      *)
(* token is one character (" ", "/", "q", "+", a digit) or an opaque       *)
(* phrase, so TrimSpace, Atoi, Split and Contains are computed.            *)
(***************************************************************************)
EXTENDS Integers, Sequences, FiniteSets, TLC

VARIABLES
    authed,      \* gcloud has an ACTIVE account
    projects,    \* what `gcloud projects list` reports, in order
    curProject,  \* gcloud config value `project` (<<>> when unset)
    clusters,    \* per project: what `gcloud container clusters list` reports
    kubeCtx,     \* kubectl current-context (<<>> when unset)
    pods,        \* pods of the cluster, in kubectl output order
    ctxBySelect, \* history: the kubectl context was last set by cluster select
    cmd,         \* the last command run
    trace,       \* external invocations and stdin reads of the last command
    out,         \* messages printed by the last command
    ret,         \* error returned by the last command's run function
    exitCode,    \* exit status of the last command
    mlPods,      \* viewMultiplePodLogs: the pods argument
    mlOutcome,   \* viewMultiplePodLogs: what viewPodLogs returns per task
    mlNext,      \* viewMultiplePodLogs: next index of the spawning loop
    taskPc,      \* per task goroutine: position
    wg,          \* sync.WaitGroup counter
    errCh,       \* buffered channel contents
    chClosed,    \* errCh closed
    closerPc,    \* the goroutine that waits and closes
    mainPc,      \* position of the calling goroutine
    firstErr,    \* local variable firstErr
    sent,        \* history: errors in the order they were sent
    mlRet        \* value returned by viewMultiplePodLogs

worldVars == <<authed, projects, curProject, clusters, kubeCtx, pods, ctxBySelect>>
cmdVars == <<cmd, trace, out, ret, exitCode>>
mlVars == <<mlPods, mlOutcome, mlNext, taskPc, wg, errCh, chClosed, closerPc,
            mainPc, firstErr, sent, mlRet>>
vars == <<authed, projects, curProject, clusters, kubeCtx, pods, ctxBySelect,
          cmd, trace, out, ret, exitCode,
          mlPods, mlOutcome, mlNext, taskPc, wg, errCh, chClosed, closerPc,
          mainPc, firstErr, sent, mlRet>>

----------------------------------------------------------------------------
(* Bounds *)

MaxProjects == 2
MaxClusters == 2
MaxPods == 2
MaxLogPods == 3

----------------------------------------------------------------------------
(* Strings *)

Nil == <<>>

DigitChars == <<"0", "1", "2", "3", "4", "5", "6", "7", "8", "9">>

IsDigit(c) == \E i \in 1..10 : DigitChars[i] = c

DigitVal(c) == (CHOOSE i \in 1..10 : DigitChars[i] = c) - 1

RECURSIVE DigitsVal(_)
DigitsVal(s) ==
    IF s = <<>> THEN 0
    ELSE 10 * DigitsVal(SubSeq(s, 1, Len(s) - 1)) + DigitVal(s[Len(s)])

RECURSIVE TrimLeft(_)
TrimLeft(s) == IF s # <<>> /\ s[1] = " " THEN TrimLeft(Tail(s)) ELSE s

RECURSIVE TrimRight(_)
TrimRight(s) ==
    IF s # <<>> /\ s[Len(s)] = " " THEN TrimRight(SubSeq(s, 1, Len(s) - 1)) ELSE s

TrimSpace(s) == TrimRight(TrimLeft(s))

\* strconv.Atoi: optional sign, then one or more decimal digits
Atoi(s) ==
    LET signed == s # <<>> /\ s[1] \in {"+", "-"}
        body == IF signed THEN Tail(s) ELSE s
        ok == body # <<>> /\ \A i \in 1..Len(body) : IsDigit(body[i])
    IN  [ok |-> ok,
         num |-> IF ~ok THEN 0
                 ELSE IF signed /\ s[1] = "-" THEN 0 - DigitsVal(body)
                 ELSE DigitsVal(body)]

\* strings.Contains
Contains(s, sub) ==
    \E i \in 1..(Len(s) + 1) :
        i + Len(sub) - 1 <= Len(s) /\ SubSeq(s, i, i + Len(sub) - 1) = sub

\* strings.Split(s, "/")
\* strings.SplitN(s, "/", 2): everything after the first "/" is one part
Split_N2(s) ==
    IF \A i \in 1..Len(s) : s[i] # "/" THEN <<s>>
    ELSE LET k == CHOOSE i \in 1..Len(s) :
                      s[i] = "/" /\ \A j \in 1..(i - 1) : s[j] # "/"
         IN  <<SubSeq(s, 1, k - 1), SubSeq(s, k + 1, Len(s))>>

RECURSIVE Split(_)
Split(s) ==
    IF \A i \in 1..Len(s) : s[i] # "/" THEN <<s>>
    ELSE LET k == CHOOSE i \in 1..Len(s) :
                      s[i] = "/" /\ \A j \in 1..(i - 1) : s[j] # "/"
         IN  <<SubSeq(s, 1, k - 1)>> \o Split(SubSeq(s, k + 1, Len(s)))

\* strings.Fields on one output line given as its columns: empty columns vanish
Fields(line) == SelectSeq(line, LAMBDA f : f # "")

\* fmt.Errorf("<prefix>: %w", err)
Wrap(prefix, err) == <<prefix>> \o err

ExitError == <<"exit status 1">>

CancelledByUser == <<"cancelled by user">>

----------------------------------------------------------------------------
(* The environment the external tools report *)

\* GCPProject values that `gcloud projects list --format=json` can report
AllProjects ==
    << [ProjectID |-> <<"p1">>, Name |-> <<"2">>],
       [ProjectID |-> <<"p2">>, Name |-> <<"p1">>],
       [ProjectID |-> <<"p3">>, Name |-> <<"1">>],
       [ProjectID |-> <<"p4">>, Name |-> <<"prod">>] >>

ProjectIDs == {AllProjects[i].ProjectID : i \in 1..Len(AllProjects)}

\* output lines (name and location columns) of `gcloud container clusters list`
ClusterPool(projectID) ==
    << <<"2", "us-central1">>,
       <<"web", "us-east1">>,
       <<"web-2", "us-west1">>,
       <<"batch", "us-east1">> >>

\* pods that `kubectl get pods --all-namespaces` can report
PodPool ==
    << [ns |-> "default", name |-> "web", phase |-> "Running", status |-> "Running"],
       [ns |-> "app", name |-> "worker", phase |-> "Running", status |-> "CrashLoopBackOff"],
       [ns |-> "kube-system", name |-> "dns", phase |-> "Running", status |-> "Running"],
       [ns |-> "app", name |-> "api", phase |-> "Pending", status |-> "Pending"],
       [ns |-> "gke-system", name |-> "agent", phase |-> "Running", status |-> "Running"],
       [ns |-> "app", name |-> "cron", phase |-> "Failed", status |-> "Error"],
       [ns |-> "kube-public", name |-> "info", phase |-> "Running", status |-> "Error"],
       [ns |-> "app", name |-> "job", phase |-> "Succeeded", status |-> "Completed"],
       [ns |-> "kube-node-lease", name |-> "lease", phase |-> "Running", status |-> "Running"] >>

\* the pod lists: runs of at most MaxPods consecutive pods of the pool
PodLists ==
    {<<>>} \cup
    {SubSeq(PodPool, w[1], w[1] + w[2] - 1) :
        w \in {v \in (1..Len(PodPool)) \X (1..MaxPods) : v[1] + v[2] - 1 <= Len(PodPool)}}

\* lines the user can type at a prompt
StdinLines ==
    { <<"q">>, <<" ", "q", " ">>, <<"x">>, <<"cancelled by user">>, <<"+", "1">> }
    \cup {<<DigitChars[n + 1]>> : n \in 0..3}

\* one read of os.Stdin with bufio.Scanner: end of input, or a line
Reads ==
    {[eof |-> TRUE, text |-> <<>>]} \cup {[eof |-> FALSE, text |-> t] : t \in StdinLines}

\* one recorded step of a command: an external invocation or a stdin read
Ev(k, a, b, c, ok) == [k |-> k, a |-> a, b |-> b, c |-> c, ok |-> ok]

----------------------------------------------------------------------------
(* package internal: every operator yields the set of results the function *)
(* can produce, one per outcome of the external tools and of stdin.        *)
(* err is the returned error (Nil for nil), ev the invocations and reads   *)
(* it made, out what it printed, ctx the kubectl context it leaves.        *)

NoCluster == [Name |-> "", Location |-> ""]

GetGKEClusters(projectID) ==
    LET lines == clusters[projectID]
        good == SelectSeq(lines, LAMBDA l : Len(Fields(l)) >= 2)
        parsed == [i \in 1..Len(good) |->
                      [Name |-> Fields(good[i])[1], Location |-> Fields(good[i])[2]]]
    IN  { [err |-> ExitError, val |-> <<>>,
           ev |-> <<Ev("clusters-list", projectID, Nil, Nil, FALSE)>>],
          [err |-> Nil, val |-> parsed,
           ev |-> <<Ev("clusters-list", projectID, Nil, Nil, TRUE)>>] }

\* the menu step of SelectCluster; quit tells whether q is recognised
ClusterPrompt(cl, quit) ==
    { LET input == TrimSpace(rd.text)
          n == Atoi(input)
          ev == <<Ev("read", <<"cluster">>, rd.text, Nil, ~rd.eof)>>
          menu == [i \in 1..Len(cl) |-> <<"menu", cl[i].Name>>]
                  \o << <<"Select cluster (number, or 'q' to quit): ">> >>
      IN  IF rd.eof
          THEN [err |-> <<"failed to read input">>, val |-> NoCluster,
                ev |-> ev, out |-> menu]
          ELSE IF quit /\ input = <<"q">>
          THEN [err |-> CancelledByUser, val |-> NoCluster, ev |-> ev, out |-> menu]
          ELSE IF ~n.ok \/ n.num < 1 \/ n.num > Len(cl)
          THEN [err |-> <<"invalid selection: ">> \o input, val |-> NoCluster,
                ev |-> ev, out |-> menu]
          ELSE [err |-> Nil, val |-> cl[n.num], ev |-> ev, out |-> menu]
      : rd \in Reads }

\* a SelectCluster that does not treat q as cancellation
SelectCluster_NoQuit(cl) ==
    IF Len(cl) = 0
    THEN {[err |-> <<"no clusters available">>, val |-> NoCluster, ev |-> <<>>,
           out |-> <<>>]}
    ELSE IF Len(cl) = 1
    THEN {[err |-> Nil, val |-> cl[1], ev |-> <<>>,
           out |-> << <<"Found 1 cluster", cl[1].Name>> >>]}
    ELSE ClusterPrompt(cl, FALSE)

\* a SelectCluster that prompts even for a single cluster
SelectCluster_AlwaysPrompt(cl) ==
    IF Len(cl) = 0
    THEN {[err |-> <<"no clusters available">>, val |-> NoCluster, ev |-> <<>>,
           out |-> <<>>]}
    ELSE ClusterPrompt(cl, TRUE)

SelectCluster(cl) ==
    IF Len(cl) = 0
    THEN {[err |-> <<"no clusters available">>, val |-> NoCluster, ev |-> <<>>,
           out |-> <<>>]}
    ELSE IF Len(cl) = 1
    THEN {[err |-> Nil, val |-> cl[1], ev |-> <<>>,
           out |-> << <<"Found 1 cluster", cl[1].Name>> >>]}
    ELSE ClusterPrompt(cl, TRUE)

\* the context `gcloud container clusters get-credentials` makes current
GkeContext(projectID, cluster) ==
    <<"gke_">> \o projectID \o <<"_", cluster.Location, "_", cluster.Name>>

\* a ConfigureKubectl that does not report the failure of get-credentials
ConfigureKubectl_ErrorDropped(projectID, cluster, ctx) ==
    { [err |-> Nil, ctx |-> ctx,
       ev |-> <<Ev("get-credentials", <<cluster.Name>>, projectID,
                   <<cluster.Location>>, FALSE)>>],
      [err |-> Nil, ctx |-> GkeContext(projectID, cluster),
       ev |-> <<Ev("get-credentials", <<cluster.Name>>, projectID,
                   <<cluster.Location>>, TRUE)>>] }

ConfigureKubectl(projectID, cluster, ctx) ==
    { [err |-> Wrap("failed to get cluster credentials: ", ExitError), ctx |-> ctx,
       ev |-> <<Ev("get-credentials", <<cluster.Name>>, projectID,
                   <<cluster.Location>>, FALSE)>>],
      [err |-> Nil, ctx |-> GkeContext(projectID, cluster),
       ev |-> <<Ev("get-credentials", <<cluster.Name>>, projectID,
                   <<cluster.Location>>, TRUE)>>] }

IsKubectlConfigured ==
    { [val |-> ok, ev |-> <<Ev("cluster-info", Nil, Nil, Nil, ok)>>] : ok \in BOOLEAN }

GetCurrentCluster(ctx) ==
    { [err |-> ExitError, val |-> <<>>,
       ev |-> <<Ev("current-context", Nil, Nil, Nil, FALSE)>>],
      [err |-> Nil, val |-> TrimSpace(ctx),
       ev |-> <<Ev("current-context", ctx, Nil, Nil, TRUE)>>] }

\* lines 128-154 of SetupClusterIfNeeded: list, select, configure
SetupCluster(projectID, ctx, pre) ==
    UNION {
      IF g.err # Nil
      THEN {[err |-> Wrap("failed to get GKE clusters: ", g.err),
             ev |-> pre \o g.ev, out |-> <<>>, ctx |-> ctx]}
      ELSE IF Len(g.val) = 0
      THEN {[err |-> <<"no GKE clusters found in project ">> \o projectID,
             ev |-> pre \o g.ev, out |-> <<>>, ctx |-> ctx]}
      ELSE UNION {
             IF s.err # Nil
             THEN {[err |-> s.err, ev |-> pre \o g.ev \o s.ev,
                    out |-> s.out, ctx |-> ctx]}
             ELSE { IF c.err # Nil
                    THEN [err |-> Wrap("failed to configure kubectl: ", c.err),
                          ev |-> pre \o g.ev \o s.ev \o c.ev,
                          out |-> s.out, ctx |-> c.ctx]
                    ELSE [err |-> Nil, ev |-> pre \o g.ev \o s.ev \o c.ev,
                          out |-> Append(s.out, <<"kubectl configured">>),
                          ctx |-> c.ctx]
                    : c \in ConfigureKubectl(projectID, s.val, ctx) }
             : s \in SelectCluster(g.val) }
      : g \in GetGKEClusters(projectID) }

\* a SetupClusterIfNeeded that sets the cluster up on every call
SetupClusterIfNeeded_Always(projectID, ctx) ==
    UNION {
      IF i.val
      THEN UNION { SetupCluster(projectID, ctx, i.ev \o c.ev)
                   : c \in GetCurrentCluster(ctx) }
      ELSE SetupCluster(projectID, ctx, i.ev)
      : i \in IsKubectlConfigured }

SetupClusterIfNeeded(projectID, ctx) ==
    UNION {
      IF i.val
      THEN UNION {
             IF c.err = Nil /\ c.val # <<>>
             THEN {[err |-> Nil, ev |-> i.ev \o c.ev,
                    out |-> << <<"Using current cluster context">> >>, ctx |-> ctx]}
             ELSE SetupCluster(projectID, ctx, i.ev \o c.ev)
             : c \in GetCurrentCluster(ctx) }
      ELSE SetupCluster(projectID, ctx, i.ev)
      : i \in IsKubectlConfigured }

\* an isSystemNamespace that does not know gke-system
isSystemNamespace_NoGke(namespace) ==
    namespace \in {"kube-system", "kube-public", "kube-node-lease"}

isSystemNamespace(namespace) ==
    namespace \in {"kube-system", "kube-public", "kube-node-lease", "gke-system"}

\* output lines of kubectl get pods -o custom-columns=NAMESPACE,NAME,STATUS:.status.phase
\* after TrimSpace and Split on newline: empty output is one empty line
CustomColumnsLines(podList) ==
    IF podList = <<>> THEN << <<>> >>
    ELSE [i \in 1..Len(podList) |->
             <<podList[i].ns, podList[i].name, podList[i].phase>>]

\* output lines of kubectl get pods --all-namespaces --no-headers
StandardLines(podList) ==
    IF podList = <<>> THEN << <<>> >>
    ELSE [i \in 1..Len(podList) |->
             <<podList[i].ns, podList[i].name, "1/1", podList[i].status, "0", "5d">>]

\* a loop of FindApplicationPods that takes pods of every phase
RECURSIVE AppPodsFrom_AnyPhase(_)
AppPodsFrom_AnyPhase(lines) ==
    IF lines = <<>> THEN <<>>
    ELSE LET line == Head(lines)
             fields == Fields(line)
             rest == AppPodsFrom_AnyPhase(Tail(lines))
         IN  IF line = <<>> THEN rest
             ELSE IF Len(fields) < 3 THEN rest
             ELSE IF isSystemNamespace(fields[1]) THEN rest
             ELSE << <<fields[1], "/", fields[2]>> >> \o rest

\* the loop of FindApplicationPods over the output lines
RECURSIVE AppPodsFrom(_)
AppPodsFrom(lines) ==
    IF lines = <<>> THEN <<>>
    ELSE LET line == Head(lines)
             fields == Fields(line)
             rest == AppPodsFrom(Tail(lines))
         IN  IF line = <<>> THEN rest
             ELSE IF Len(fields) < 3 THEN rest
             ELSE IF isSystemNamespace(fields[1]) \/ fields[3] # "Running" THEN rest
             ELSE << <<fields[1], "/", fields[2]>> >> \o rest

FindApplicationPods(podList) ==
    { [err |-> ExitError, val |-> <<>>,
       ev |-> <<Ev("get-pods", Nil, Nil, Nil, FALSE)>>],
      [err |-> Nil, val |-> AppPodsFrom(CustomColumnsLines(podList)),
       ev |-> <<Ev("get-pods", Nil, Nil, Nil, TRUE)>>] }

NodeNames == {"node-1", "<unknown>"}

\* a loop of GetDetailedPodInfo that keeps only the pods that are Running
RECURSIVE DetailedFrom_RunningOnly(_, _, _)
DetailedFrom_RunningOnly(lines, node, i) ==
    IF i > Len(lines) THEN [val |-> <<>>, ev |-> <<>>]
    ELSE LET line == lines[i]
             fields == Fields(line)
             rest == DetailedFrom_RunningOnly(lines, node, i + 1)
         IN  IF line = <<>> THEN rest
             ELSE IF Len(fields) < 6 THEN rest
             ELSE LET lookup == Ev("get-node", <<fields[1], "/", fields[2]>>, Nil, Nil,
                                   node[i] # "<unknown>")
                  IN  IF isSystemNamespace(fields[1]) \/ fields[4] # "Running"
                      THEN [val |-> rest.val, ev |-> <<lookup>> \o rest.ev]
                      ELSE [val |-> << [Namespace |-> fields[1], Name |-> fields[2],
                                        Status |-> fields[4], Ready |-> fields[3],
                                        Restarts |-> fields[5], Age |-> fields[6],
                                        Node |-> node[i]] >> \o rest.val,
                            ev |-> <<lookup>> \o rest.ev]

\* the loop of GetDetailedPodInfo: node[i] is what getNodeForPod yields for line i
RECURSIVE DetailedFrom(_, _, _)
DetailedFrom(lines, node, i) ==
    IF i > Len(lines) THEN [val |-> <<>>, ev |-> <<>>]
    ELSE LET line == lines[i]
             fields == Fields(line)
             rest == DetailedFrom(lines, node, i + 1)
         IN  IF line = <<>> THEN rest
             ELSE IF Len(fields) < 6 THEN rest
             ELSE LET lookup == Ev("get-node", <<fields[1], "/", fields[2]>>, Nil, Nil,
                                   node[i] # "<unknown>")
                  IN  IF isSystemNamespace(fields[1])
                      THEN [val |-> rest.val, ev |-> <<lookup>> \o rest.ev]
                      ELSE IF fields[4] \in {"Running", "Pending", "CrashLoopBackOff", "Error"}
                      THEN [val |-> << [Namespace |-> fields[1], Name |-> fields[2],
                                        Status |-> fields[4], Ready |-> fields[3],
                                        Restarts |-> fields[5], Age |-> fields[6],
                                        Node |-> node[i]] >> \o rest.val,
                            ev |-> <<lookup>> \o rest.ev]
                      ELSE [val |-> rest.val, ev |-> <<lookup>> \o rest.ev]

GetDetailedPodInfo(podList) ==
    {[err |-> ExitError, val |-> <<>>,
      ev |-> <<Ev("get-pods-status", Nil, Nil, Nil, FALSE)>>]}
    \cup
    { LET d == DetailedFrom(StandardLines(podList), node, 1)
      IN  [err |-> Nil, val |-> d.val,
           ev |-> <<Ev("get-pods-status", Nil, Nil, Nil, TRUE)>> \o d.ev]
      : node \in [1..Len(StandardLines(podList)) -> NodeNames] }

\* a SelectPod that does not trim the line it reads
SelectPod_NoTrim(podIds) ==
    IF Len(podIds) = 0
    THEN {[err |-> <<"no pods available">>, val |-> <<>>, ev |-> <<>>, out |-> <<>>]}
    ELSE { LET input == rd.text
               n == Atoi(input)
               ev == <<Ev("read", <<"pod">>, rd.text, Nil, ~rd.eof)>>
               menu == [i \in 1..Len(podIds) |->
                           <<"pod", DigitChars[i + 1], ". ">> \o podIds[i]]
                       \o << <<"Select pod (number, or 'q' to quit): ">> >>
           IN  IF rd.eof
               THEN [err |-> <<"failed to read input">>, val |-> <<>>,
                     ev |-> ev, out |-> menu]
               ELSE IF input = <<"q">>
               THEN [err |-> CancelledByUser, val |-> <<>>, ev |-> ev, out |-> menu]
               ELSE IF ~n.ok \/ n.num < 1 \/ n.num > Len(podIds)
               THEN [err |-> <<"invalid selection: ">> \o input, val |-> <<>>,
                     ev |-> ev, out |-> menu]
               ELSE [err |-> Nil, val |-> podIds[n.num], ev |-> ev, out |-> menu]
           : rd \in Reads }

SelectPod(podIds) ==
    IF Len(podIds) = 0
    THEN {[err |-> <<"no pods available">>, val |-> <<>>, ev |-> <<>>, out |-> <<>>]}
    ELSE { LET input == TrimSpace(rd.text)
               n == Atoi(input)
               ev == <<Ev("read", <<"pod">>, rd.text, Nil, ~rd.eof)>>
               menu == [i \in 1..Len(podIds) |->
                           <<"pod", DigitChars[i + 1], ". ">> \o podIds[i]]
                       \o << <<"Select pod (number, or 'q' to quit): ">> >>
           IN  IF rd.eof
               THEN [err |-> <<"failed to read input">>, val |-> <<>>,
                     ev |-> ev, out |-> menu]
               ELSE IF input = <<"q">>
               THEN [err |-> CancelledByUser, val |-> <<>>, ev |-> ev, out |-> menu]
               ELSE IF ~n.ok \/ n.num < 1 \/ n.num > Len(podIds)
               THEN [err |-> <<"invalid selection: ">> \o input, val |-> <<>>,
                     ev |-> ev, out |-> menu]
               ELSE [err |-> Nil, val |-> podIds[n.num], ev |-> ev, out |-> menu]
           : rd \in Reads }

SetupClusterAndSelectPod(projectID, ctx, podList) ==
    UNION {
      IF su.err # Nil
      THEN {[err |-> su.err, val |-> <<>>, ev |-> su.ev, out |-> su.out, ctx |-> su.ctx]}
      ELSE UNION {
             IF f.err # Nil
             THEN {[err |-> Wrap("failed to find application pods: ", f.err),
                    val |-> <<>>, ev |-> su.ev \o f.ev, out |-> su.out, ctx |-> su.ctx]}
             ELSE IF Len(f.val) = 0
             THEN {[err |-> <<"no pods found">>, val |-> <<>>, ev |-> su.ev \o f.ev,
                    out |-> Append(su.out, <<"No pods found">>), ctx |-> su.ctx]}
             ELSE { [err |-> p.err, val |-> p.val, ev |-> su.ev \o f.ev \o p.ev,
                     out |-> su.out \o p.out, ctx |-> su.ctx]
                    : p \in SelectPod(f.val) }
             : f \in FindApplicationPods(podList) }
      : su \in SetupClusterIfNeeded(projectID, ctx) }

----------------------------------------------------------------------------
(* package cmd: helpers *)

\* an authentication check that always passes
isAuthenticated_Skipped ==
    { [val |-> TRUE, ev |-> <<Ev("auth-list", Nil, Nil, Nil, TRUE)>>] }

isAuthenticated ==
    { [val |-> authed, ev |-> <<Ev("auth-list", Nil, Nil, Nil, TRUE)>>],
      [val |-> FALSE, ev |-> <<Ev("auth-list", Nil, Nil, Nil, FALSE)>>] }

getCurrentProject ==
    { [val |-> TrimSpace(curProject), ev |-> <<Ev("get-project", Nil, Nil, Nil, TRUE)>>],
      [val |-> <<>>, ev |-> <<Ev("get-project", Nil, Nil, Nil, FALSE)>>] }

ToLower(level) ==
    CASE level \in {"ERROR", "Error"} -> "error"
      [] level \in {"ERR", "Err"} -> "err"
      [] level \in {"WARN", "Warn"} -> "warn"
      [] level \in {"WARNING", "Warning"} -> "warning"
      [] level \in {"INFO", "Info"} -> "info"
      [] level \in {"DEBUG", "Debug"} -> "debug"
      [] level \in {"TRACE", "Trace"} -> "trace"
      [] OTHER -> level

\* a getLogLevelPatterns that compares the level as it is spelled
getLogLevelPatterns_CaseSensitive(level) ==
    IF level \in {"error", "err"} THEN <<"ERROR", "FATAL", "Exception", "Error">>
    ELSE IF level \in {"warn", "warning"} THEN <<"WARN", "WARNING">>
    ELSE IF level = "info" THEN <<"INFO">>
    ELSE IF level = "debug" THEN <<"DEBUG">>
    ELSE <<>>

getLogLevelPatterns(level) ==
    LET l == ToLower(level)
    IN  IF l \in {"error", "err"} THEN <<"ERROR", "FATAL", "Exception", "Error">>
        ELSE IF l \in {"warn", "warning"} THEN <<"WARN", "WARNING">>
        ELSE IF l = "info" THEN <<"INFO">>
        ELSE IF l = "debug" THEN <<"DEBUG">>
        ELSE <<>>

\* one kubectl logs (and grep) run; ev.b is the pod name, ev.a its namespace
\* a viewPodLogs that returns nil once kubectl logs has succeeded
viewPodLogs_GrepIgnored(podNameWithNamespace, follow, level) ==
    LET parts == Split(podNameWithNamespace)
        namespace == parts[1]
        podName == parts[2]
        args == IF follow THEN <<"-f">> ELSE <<>>
        grepPatterns == getLogLevelPatterns(level)
        banner == (IF level # "" THEN << <<"Filtering logs by level", level>> >> ELSE <<>>)
        logs(ok) == Ev("logs", namespace, podName, args, ok)
        grep(ok) == Ev("grep", grepPatterns, Nil, Nil, ok)
    IN  IF Len(parts) # 2
        THEN {[err |-> <<"invalid pod format: ">> \o podNameWithNamespace,
               ev |-> <<>>, out |-> <<>>]}
        ELSE IF level # "" /\ Len(grepPatterns) > 0
        THEN { [err |-> ExitError, ev |-> <<Ev("logs-start", namespace, podName, args, FALSE)>>,
                out |-> banner],
               [err |-> ExitError,
                ev |-> <<Ev("logs-start", namespace, podName, args, TRUE),
                         Ev("grep-start", grepPatterns, Nil, Nil, FALSE)>>,
                out |-> banner],
               [err |-> ExitError,
                ev |-> <<Ev("logs-start", namespace, podName, args, TRUE),
                         Ev("grep-start", grepPatterns, Nil, Nil, TRUE), logs(FALSE)>>,
                out |-> banner],
               [err |-> Nil,
                ev |-> <<Ev("logs-start", namespace, podName, args, TRUE),
                         Ev("grep-start", grepPatterns, Nil, Nil, TRUE), logs(TRUE),
                         grep(FALSE)>>,
                out |-> banner],
               [err |-> Nil,
                ev |-> <<Ev("logs-start", namespace, podName, args, TRUE),
                         Ev("grep-start", grepPatterns, Nil, Nil, TRUE), logs(TRUE),
                         grep(TRUE)>>,
                out |-> banner] }
        ELSE { [err |-> ExitError, ev |-> <<logs(FALSE)>>, out |-> banner],
               [err |-> Nil, ev |-> <<logs(TRUE)>>, out |-> banner] }

viewPodLogs(podNameWithNamespace, follow, level) ==
    LET parts == Split(podNameWithNamespace)
        namespace == parts[1]
        podName == parts[2]
        args == IF follow THEN <<"-f">> ELSE <<>>
        grepPatterns == getLogLevelPatterns(level)
        banner == (IF level # "" THEN << <<"Filtering logs by level", level>> >> ELSE <<>>)
        logs(ok) == Ev("logs", namespace, podName, args, ok)
        grep(ok) == Ev("grep", grepPatterns, Nil, Nil, ok)
    IN  IF Len(parts) # 2
        THEN {[err |-> <<"invalid pod format: ">> \o podNameWithNamespace,
               ev |-> <<>>, out |-> <<>>]}
        ELSE IF level # "" /\ Len(grepPatterns) > 0
        THEN { [err |-> ExitError, ev |-> <<Ev("logs-start", namespace, podName, args, FALSE)>>,
                out |-> banner],
               [err |-> ExitError,
                ev |-> <<Ev("logs-start", namespace, podName, args, TRUE),
                         Ev("grep-start", grepPatterns, Nil, Nil, FALSE)>>,
                out |-> banner],
               [err |-> ExitError,
                ev |-> <<Ev("logs-start", namespace, podName, args, TRUE),
                         Ev("grep-start", grepPatterns, Nil, Nil, TRUE), logs(FALSE)>>,
                out |-> banner],
               [err |-> ExitError,
                ev |-> <<Ev("logs-start", namespace, podName, args, TRUE),
                         Ev("grep-start", grepPatterns, Nil, Nil, TRUE), logs(TRUE),
                         grep(FALSE)>>,
                out |-> banner],
               [err |-> Nil,
                ev |-> <<Ev("logs-start", namespace, podName, args, TRUE),
                         Ev("grep-start", grepPatterns, Nil, Nil, TRUE), logs(TRUE),
                         grep(TRUE)>>,
                out |-> banner] }
        ELSE { [err |-> ExitError, ev |-> <<logs(FALSE)>>, out |-> banner],
               [err |-> Nil, ev |-> <<logs(TRUE)>>, out |-> banner] }

\* the shells in another order
shells_ShFirst == <<"/bin/sh", "/bin/bash", "/bin/zsh">>

shells == <<"/bin/bash", "/bin/zsh", "/bin/sh">>

\* the loop of connectToShell from shell number i on
RECURSIVE TryShells(_, _, _)
TryShells(namespace, podName, i) ==
    IF i > Len(shells)
    THEN {[err |-> <<"no suitable shell found in pod">>, ev |-> <<>>]}
    ELSE {[err |-> Nil, ev |-> <<Ev("exec", namespace, podName, <<shells[i]>>, TRUE)>>]}
         \cup
         { [err |-> r.err,
            ev |-> <<Ev("exec", namespace, podName, <<shells[i]>>, FALSE)>> \o r.ev]
           : r \in TryShells(namespace, podName, i + 1) }

connectToShell(podNameWithNamespace) ==
    LET parts == Split(podNameWithNamespace)
    IN  IF Len(parts) # 2
        THEN {[err |-> <<"invalid pod format: ">> \o podNameWithNamespace, ev |-> <<>>]}
        ELSE TryShells(parts[1], parts[2], 1)

\* the console commands with the bin/rails forms tried first
consoleCommands_BinFirst ==
    <<"bin/rails console", "bin/rails c", "bundle exec rails console",
      "bundle exec rails c", "rails console", "rails c">>

consoleCommands ==
    <<"bundle exec rails console", "bundle exec rails c", "rails console",
      "rails c", "bin/rails console", "bin/rails c">>

\* the loop of connectToRailsConsole from command number i on, then the shell
RECURSIVE TryConsoles(_, _, _)
TryConsoles(namespace, podName, i) ==
    IF i > Len(consoleCommands)
    THEN { [err |-> Nil, ev |-> <<Ev("exec", namespace, podName, <<"/bin/bash">>, TRUE)>>],
           [err |-> ExitError,
            ev |-> <<Ev("exec", namespace, podName, <<"/bin/bash">>, FALSE)>>] }
    ELSE {[err |-> Nil,
           ev |-> <<Ev("exec", namespace, podName, <<"sh", "-c", consoleCommands[i]>>, TRUE)>>]}
         \cup
         { [err |-> r.err,
            ev |-> <<Ev("exec", namespace, podName, <<"sh", "-c", consoleCommands[i]>>,
                        FALSE)>> \o r.ev]
           : r \in TryConsoles(namespace, podName, i + 1) }

connectToRailsConsole(podNameWithNamespace) ==
    LET parts == Split(podNameWithNamespace)
    IN  IF Len(parts) # 2
        THEN {[err |-> <<"invalid pod format: ">> \o podNameWithNamespace, ev |-> <<>>]}
        ELSE TryConsoles(parts[1], parts[2], 1)

----------------------------------------------------------------------------
(* package cmd: the run functions.  A result is [ret, ev, out, ctx, proj,  *)
(* auth]: the returned error, the steps made, the lines printed, and the   *)
(* kubectl context, gcloud project and login state the call leaves.        *)

Res(r, ev, o, ctx, proj) ==
    [ret |-> r, ev |-> ev, out |-> o, ctx |-> ctx, proj |-> proj, auth |-> authed]

NotAuthenticated == << <<"Not authenticated with Google Cloud">> >>

NoProjectSelected == << <<"No GCP project selected">> >>

Cancelled == << <<"Cancelled.">> >>

\* the authentication check and current-project lookup that open every
\* cluster and pod handler; Body gets the project and the steps so far
WithProject(Body(_, _)) ==
    UNION {
      IF ~a.val
      THEN {Res(Nil, a.ev, NotAuthenticated, kubeCtx, curProject)}
      ELSE UNION {
             IF p.val = <<>>
             THEN {Res(Nil, a.ev \o p.ev, NoProjectSelected, kubeCtx, curProject)}
             ELSE Body(p.val, a.ev \o p.ev)
             : p \in getCurrentProject }
      : a \in isAuthenticated }

listPods(showStatus) ==
    LET row(pod) == IF showStatus
                    THEN <<"row", pod.Namespace, pod.Name, pod.Status, pod.Node>>
                    ELSE <<"row", pod.Namespace, pod.Name>>
        body(currentProject, pre) ==
          UNION {
            IF su.err # Nil
            THEN IF Contains(su.err, CancelledByUser)
                 THEN {Res(Nil, pre \o su.ev, su.out \o Cancelled, su.ctx, curProject)}
                 ELSE {Res(Wrap("failed to setup cluster: ", su.err), pre \o su.ev,
                           su.out, su.ctx, curProject)}
            ELSE { IF d.err # Nil
                   THEN Res(Wrap("failed to get pod information: ", d.err),
                            pre \o su.ev \o d.ev, su.out, su.ctx, curProject)
                   ELSE IF Len(d.val) = 0
                   THEN Res(Nil, pre \o su.ev \o d.ev,
                            Append(su.out, <<"No application pods found">>),
                            su.ctx, curProject)
                   ELSE Res(Nil, pre \o su.ev \o d.ev,
                            su.out \o [i \in 1..Len(d.val) |-> row(d.val[i])],
                            su.ctx, curProject)
                   : d \in GetDetailedPodInfo(pods) }
            : su \in SetupClusterIfNeeded(currentProject, kubeCtx) }
    IN  WithProject(body)

\* results of the log tasks of viewMultiplePodLogs for pods i..Len(podIds)
RECURSIVE TaskResults(_, _, _, _)
TaskResults(podIds, follow, level, i) ==
    IF i > Len(podIds) THEN {[ev |-> <<>>, errs |-> {}, out |-> <<>>]}
    ELSE { [ev |-> t.ev \o r.ev,
            errs |-> (IF t.err # Nil THEN {podIds[i] \o <<": ">> \o t.err} ELSE {})
                     \cup r.errs,
            out |-> t.out \o r.out]
           : t \in viewPodLogs(podIds[i], follow, level),
             r \in TaskResults(podIds, follow, level, i + 1) }

\* a viewMultiplePodLogs that starts a task for the first pod only
viewMultiplePodLogs_FirstOnly(podIds, follow, level) ==
    IF Len(podIds) = 0
    THEN {[err |-> <<"no pods provided">>, ev |-> <<>>, out |-> <<>>]}
    ELSE UNION {
           IF r.errs = {} THEN {[err |-> Nil, ev |-> r.ev, out |-> r.out]}
           ELSE {[err |-> e, ev |-> r.ev, out |-> r.out] : e \in r.errs}
           : r \in TaskResults(SubSeq(podIds, 1, 1), follow, level, 1) }

\* viewMultiplePodLogs as one step: every task runs to its end, and the
\* error returned is the one that reached the channel first
viewMultiplePodLogs(podIds, follow, level) ==
    IF Len(podIds) = 0
    THEN {[err |-> <<"no pods provided">>, ev |-> <<>>, out |-> <<>>]}
    ELSE UNION {
           IF r.errs = {} THEN {[err |-> Nil, ev |-> r.ev, out |-> r.out]}
           ELSE {[err |-> e, ev |-> r.ev, out |-> r.out] : e \in r.errs}
           : r \in TaskResults(podIds, follow, level, 1) }

runPodLogs(follow, level, allPods) ==
    LET all(currentProject, pre) ==
          UNION {
            IF su.err # Nil
            THEN IF Contains(su.err, CancelledByUser)
                 THEN {Res(Nil, pre \o su.ev, su.out \o Cancelled, su.ctx, curProject)}
                 ELSE {Res(Wrap("failed to setup cluster: ", su.err), pre \o su.ev,
                           su.out, su.ctx, curProject)}
            ELSE UNION {
                   IF f.err # Nil
                   THEN {Res(Wrap("failed to find application pods: ", f.err),
                             pre \o su.ev \o f.ev, su.out, su.ctx, curProject)}
                   ELSE IF Len(f.val) = 0
                   THEN {Res(Nil, pre \o su.ev \o f.ev,
                             Append(su.out, <<"No application pods found">>),
                             su.ctx, curProject)}
                   ELSE { Res(m.err, pre \o su.ev \o f.ev \o m.ev,
                              su.out \o [i \in 1..Len(f.val) |-> <<"viewing">> \o f.val[i]]
                                     \o m.out,
                              su.ctx, curProject)
                          : m \in viewMultiplePodLogs(f.val, follow, level) }
                   : f \in FindApplicationPods(pods) }
            : su \in SetupClusterIfNeeded(currentProject, kubeCtx) }
        one(currentProject, pre) ==
          UNION {
            IF sel.err # Nil
            THEN IF Contains(sel.err, CancelledByUser)
                 THEN {Res(Nil, pre \o sel.ev, sel.out \o Cancelled, sel.ctx, curProject)}
                 ELSE {Res(sel.err, pre \o sel.ev, sel.out, sel.ctx, curProject)}
            ELSE { Res(v.err, pre \o sel.ev \o v.ev,
                       sel.out \o << <<"viewing">> \o sel.val >> \o v.out,
                       sel.ctx, curProject)
                   : v \in viewPodLogs(sel.val, follow, level) }
            : sel \in SetupClusterAndSelectPod(currentProject, kubeCtx, pods) }
    IN  IF allPods THEN WithProject(all) ELSE WithProject(one)

runPodShell ==
    LET body(currentProject, pre) ==
          UNION {
            IF sel.err # Nil
            THEN IF Contains(sel.err, CancelledByUser)
                 THEN {Res(Nil, pre \o sel.ev, sel.out \o Cancelled, sel.ctx, curProject)}
                 ELSE {Res(sel.err, pre \o sel.ev, sel.out, sel.ctx, curProject)}
            ELSE { Res(c.err, pre \o sel.ev \o c.ev, sel.out, sel.ctx, curProject)
                   : c \in connectToShell(sel.val) }
            : sel \in SetupClusterAndSelectPod(currentProject, kubeCtx, pods) }
    IN  WithProject(body)

runRailsConsole ==
    LET body(currentProject, pre) ==
          UNION {
            IF sel.err # Nil
            THEN IF Contains(sel.err, CancelledByUser)
                 THEN {Res(Nil, pre \o sel.ev, sel.out \o Cancelled, sel.ctx, curProject)}
                 ELSE {Res(sel.err, pre \o sel.ev, sel.out, sel.ctx, curProject)}
            ELSE { Res(c.err, pre \o sel.ev \o c.ev, sel.out, sel.ctx, curProject)
                   : c \in connectToRailsConsole(sel.val) }
            : sel \in SetupClusterAndSelectPod(currentProject, kubeCtx, pods) }
    IN  WithProject(body)

----------------------------------------------------------------------------
(* cluster commands *)

getCurrentKubectlCluster ==
    { [val |-> <<>>, ev |-> <<Ev("current-context", Nil, Nil, Nil, FALSE)>>],
      [val |-> TrimSpace(kubeCtx), ev |-> <<Ev("current-context", kubeCtx, Nil, Nil, TRUE)>>] }

\* the characters of the words that kubectl contexts and cluster names are made of
Chars(word) ==
    CASE word = "gke_" -> <<"g", "k", "e", "_">>
      [] word = "_" -> <<"_">>
      [] word = "p1" -> <<"p", "1">>
      [] word = "p2" -> <<"p", "2">>
      [] word = "p3" -> <<"p", "3">>
      [] word = "p4" -> <<"p", "4">>
      [] word = "us-central1" -> <<"u", "s", "-", "c", "e", "n", "t", "r", "a", "l", "1">>
      [] word = "us-east1" -> <<"u", "s", "-", "e", "a", "s", "t", "1">>
      [] word = "us-west1" -> <<"u", "s", "-", "w", "e", "s", "t", "1">>
      [] word = "2" -> <<"2">>
      [] word = "web" -> <<"w", "e", "b">>
      [] word = "web-2" -> <<"w", "e", "b", "-", "2">>
      [] word = "batch" -> <<"b", "a", "t", "c", "h">>
      [] OTHER -> <<word>>

\* a string given as words, character by character
RECURSIVE Spell(_)
Spell(s) == IF s = <<>> THEN <<>> ELSE Chars(Head(s)) \o Spell(Tail(s))

isCurrentCluster(cluster, currentContext) ==
    Contains(Spell(currentContext), Chars(cluster.Name))

\* a switchToCluster that reports success and leaves the kubectl context alone
switchToCluster_ContextKept(projectID, cluster, pre, o) ==
    { Res(Nil, pre \o c.ev,
          o \o << <<"Switching to cluster", cluster.Name>>,
                  <<"Successfully switched to cluster", cluster.Name>> >>,
          kubeCtx, curProject)
      : c \in ConfigureKubectl(projectID, cluster, kubeCtx) }

switchToCluster(projectID, cluster, pre, o) ==
    { IF c.err # Nil
      THEN Res(Wrap("failed to switch cluster: ", c.err), pre \o c.ev,
               Append(o, <<"Switching to cluster", cluster.Name>>), c.ctx, curProject)
      ELSE Res(Nil, pre \o c.ev,
               o \o << <<"Switching to cluster", cluster.Name>>,
                       <<"Successfully switched to cluster", cluster.Name>> >>,
               c.ctx, curProject)
      : c \in ConfigureKubectl(projectID, cluster, kubeCtx) }

\* the numbered lines of listClusters
ClusterLines(cl, currentContext) ==
    [i \in 1..Len(cl) |->
        <<(IF isCurrentCluster(cl[i], currentContext) THEN "- [x]" ELSE "- [ ]"),
          DigitChars[i + 1], ". ", cl[i].Name, cl[i].Location>>]

listClusters ==
    LET body(currentProject, pre) ==
          UNION {
            IF g.err # Nil
            THEN {Res(Wrap("failed to discover clusters: ", g.err), pre \o g.ev,
                      <<>>, kubeCtx, curProject)}
            ELSE IF Len(g.val) = 0
            THEN {Res(Nil, pre \o g.ev, << <<"No GKE clusters found.">> >>,
                      kubeCtx, curProject)}
            ELSE { Res(Nil, pre \o g.ev \o k.ev, ClusterLines(g.val, k.val),
                       kubeCtx, curProject)
                   : k \in getCurrentKubectlCluster }
            : g \in GetGKEClusters(currentProject) }
    IN  WithProject(body)

selectClusterInteractive ==
    LET body(currentProject, pre) ==
          UNION {
            IF g.err # Nil
            THEN {Res(Wrap("failed to get clusters: ", g.err), pre \o g.ev,
                      <<>>, kubeCtx, curProject)}
            ELSE IF Len(g.val) = 0
            THEN {Res(Nil, pre \o g.ev, << <<"No GKE clusters found.">> >>,
                      kubeCtx, curProject)}
            ELSE UNION {
                   IF sel.err # Nil
                   THEN IF Contains(sel.err, CancelledByUser)
                        THEN {Res(Nil, pre \o g.ev \o sel.ev, sel.out \o Cancelled,
                                  kubeCtx, curProject)}
                        ELSE {Res(Wrap("failed to select cluster: ", sel.err),
                                  pre \o g.ev \o sel.ev, sel.out, kubeCtx, curProject)}
                   ELSE switchToCluster(currentProject, sel.val, pre \o g.ev \o sel.ev,
                                        sel.out)
                   : sel \in SelectCluster(g.val) }
            : g \in GetGKEClusters(currentProject) }
    IN  WithProject(body)

\* a lookup that tries the cluster name before the number
ClusterByIdentifier_NameFirst(cl, identifier) ==
    LET n == Atoi(identifier)
        named == {i \in 1..Len(cl) : <<cl[i].Name>> = identifier}
    IN  IF named # {} THEN CHOOSE i \in named : \A j \in named : i <= j
        ELSE IF n.ok /\ n.num >= 1 /\ n.num <= Len(cl) THEN n.num
        ELSE 0

\* the two lookups of selectClusterByIdentifier: 0 when nothing matches
ClusterByIdentifier(cl, identifier) ==
    LET n == Atoi(identifier)
        named == {i \in 1..Len(cl) : <<cl[i].Name>> = identifier}
    IN  IF n.ok /\ n.num >= 1 /\ n.num <= Len(cl) THEN n.num
        ELSE IF named # {} THEN CHOOSE i \in named : \A j \in named : i <= j
        ELSE 0

selectClusterByIdentifier(identifier) ==
    LET body(currentProject, pre) ==
          UNION {
            IF g.err # Nil
            THEN {Res(Wrap("failed to get clusters: ", g.err), pre \o g.ev,
                      <<>>, kubeCtx, curProject)}
            ELSE IF Len(g.val) = 0
            THEN {Res(Nil, pre \o g.ev, << <<"No GKE clusters found.">> >>,
                      kubeCtx, curProject)}
            ELSE IF ClusterByIdentifier(g.val, identifier) = 0
            THEN {Res(Nil, pre \o g.ev, << <<"Cluster '">> \o identifier \o <<"' not found.">> >>,
                      kubeCtx, curProject)}
            ELSE switchToCluster(currentProject,
                                 g.val[ClusterByIdentifier(g.val, identifier)],
                                 pre \o g.ev, <<>>)
            : g \in GetGKEClusters(currentProject) }
    IN  WithProject(body)

----------------------------------------------------------------------------
(* environment commands *)

getGCPProjects ==
    { [err |-> Wrap("failed to list GCP projects: ", ExitError), val |-> <<>>,
       ev |-> <<Ev("projects-list", Nil, Nil, Nil, FALSE)>>],
      [err |-> Nil, val |-> projects,
       ev |-> <<Ev("projects-list", Nil, Nil, Nil, TRUE)>>] }

switchToProject(projectID, pre, o) ==
    { Res(Wrap("failed to switch project: ", ExitError),
          Append(pre, Ev("set-project", projectID, Nil, Nil, FALSE)),
          Append(o, <<"Switching to project: ">> \o projectID), kubeCtx, curProject),
      Res(Nil, Append(pre, Ev("set-project", projectID, Nil, Nil, TRUE)),
          o \o << <<"Switching to project: ">> \o projectID,
                  <<"Successfully switched to project: ">> \o projectID >>,
          kubeCtx, projectID) }

ProjectStatuses == {"Not accessible", "Connected (has clusters)", "Accessible"}

\* the numbered lines of listEnvironments and selectEnvironmentInteractive
EnvLines(ps, currentProject, status) ==
    [i \in 1..Len(ps) |->
        <<(IF ps[i].ProjectID = currentProject THEN "- [x]" ELSE "- [ ]")>>
        \o <<DigitChars[i + 1], ". ">> \o ps[i].ProjectID \o <<" (">> \o ps[i].Name
        \o <<")">> \o (IF status[i] = "" THEN <<>> ELSE <<" ", status[i]>>)]

listEnvironments(showStatus) ==
    UNION {
      IF ~a.val
      THEN {Res(Nil, a.ev, NotAuthenticated, kubeCtx, curProject)}
      ELSE UNION {
             IF g.err # Nil
             THEN {Res(Wrap("failed to discover projects: ", g.err), a.ev \o g.ev,
                       <<>>, kubeCtx, curProject)}
             ELSE IF Len(g.val) = 0
             THEN {Res(Nil, a.ev \o g.ev, << <<"No GCP projects found.">> >>,
                       kubeCtx, curProject)}
             ELSE { Res(Nil,
                        a.ev \o g.ev \o c.ev
                        \o (IF showStatus
                            THEN [i \in 1..Len(g.val) |->
                                     Ev("project-status", g.val[i].ProjectID, Nil, Nil,
                                        status[i] # "Not accessible")]
                            ELSE <<>>),
                        EnvLines(g.val, c.val, status), kubeCtx, curProject)
                    : c \in getCurrentProject,
                      status \in IF showStatus THEN [1..Len(g.val) -> ProjectStatuses]
                                 ELSE {[i \in 1..Len(g.val) |-> ""]} }
             : g \in getGCPProjects }
      : a \in isAuthenticated }

\* a lookup that tries the project ID and name before the number
ProjectByIdentifier_NameFirst(ps, identifier) ==
    LET n == Atoi(identifier)
        named == {i \in 1..Len(ps) :
                     ps[i].ProjectID = identifier \/ ps[i].Name = identifier}
    IN  IF named # {} THEN CHOOSE i \in named : \A j \in named : i <= j
        ELSE IF n.ok /\ n.num >= 1 /\ n.num <= Len(ps) THEN n.num
        ELSE 0

\* a lookup that falls back to the first project when nothing matches
ProjectByIdentifier_DefaultFirst(ps, identifier) ==
    LET n == Atoi(identifier)
        named == {i \in 1..Len(ps) :
                     ps[i].ProjectID = identifier \/ ps[i].Name = identifier}
    IN  IF n.ok /\ n.num >= 1 /\ n.num <= Len(ps) THEN n.num
        ELSE IF named # {} THEN CHOOSE i \in named : \A j \in named : i <= j
        ELSE 1

\* the two lookups of selectEnvironment: 0 when nothing matches
ProjectByIdentifier(ps, identifier) ==
    LET n == Atoi(identifier)
        named == {i \in 1..Len(ps) :
                     ps[i].ProjectID = identifier \/ ps[i].Name = identifier}
    IN  IF n.ok /\ n.num >= 1 /\ n.num <= Len(ps) THEN n.num
        ELSE IF named # {} THEN CHOOSE i \in named : \A j \in named : i <= j
        ELSE 0

selectEnvironment(identifier) ==
    UNION {
      IF ~a.val
      THEN {Res(Nil, a.ev, NotAuthenticated, kubeCtx, curProject)}
      ELSE UNION {
             IF g.err # Nil
             THEN {Res(Wrap("failed to get projects: ", g.err), a.ev \o g.ev,
                       <<>>, kubeCtx, curProject)}
             ELSE IF Len(g.val) = 0
             THEN {Res(Nil, a.ev \o g.ev, << <<"No GCP projects found.">> >>,
                       kubeCtx, curProject)}
             ELSE IF ProjectByIdentifier(g.val, identifier) = 0
             THEN {Res(Nil, a.ev \o g.ev,
                       << <<"Environment '">> \o identifier \o <<"' not found.">> >>,
                       kubeCtx, curProject)}
             ELSE switchToProject(g.val[ProjectByIdentifier(g.val, identifier)].ProjectID,
                                  a.ev \o g.ev, <<>>)
             : g \in getGCPProjects }
      : a \in isAuthenticated }

selectEnvironmentInteractive ==
    UNION {
      IF ~a.val
      THEN {Res(Nil, a.ev, NotAuthenticated, kubeCtx, curProject)}
      ELSE UNION {
             IF g.err # Nil
             THEN {Res(Wrap("failed to get projects: ", g.err), a.ev \o g.ev,
                       <<>>, kubeCtx, curProject)}
             ELSE IF Len(g.val) = 0
             THEN {Res(Nil, a.ev \o g.ev, << <<"No GCP projects found.">> >>,
                       kubeCtx, curProject)}
             ELSE UNION {
                    LET input == TrimSpace(rd.text)
                        n == Atoi(input)
                        ev == a.ev \o g.ev \o c.ev
                              \o <<Ev("read", <<"environment">>, rd.text, Nil, ~rd.eof)>>
                        menu == Append(EnvLines(g.val, c.val, [i \in 1..Len(g.val) |-> ""]),
                                       <<"Select environment (number): ">>)
                    IN  IF rd.eof
                        THEN {Res(<<"failed to read input">>, ev, menu, kubeCtx, curProject)}
                        ELSE IF ~n.ok \/ n.num < 1 \/ n.num > Len(g.val)
                        THEN {Res(Nil, ev, Append(menu, <<"Invalid selection: ">> \o input),
                                  kubeCtx, curProject)}
                        ELSE switchToProject(g.val[n.num].ProjectID, ev, menu)
                    : c \in getCurrentProject, rd \in Reads }
             : g \in getGCPProjects }
      : a \in isAuthenticated }

----------------------------------------------------------------------------
(* authentication commands *)

ActiveAccount == <<"user@example.com">>

\* a runLogin that fails when the application-default login fails
runLogin_AdcRequired ==
    { [Res(<<"gcloud CLI not found">>, <<Ev("look-path", Nil, Nil, Nil, FALSE)>>,
           <<>>, kubeCtx, curProject) EXCEPT !.auth = authed],
      [Res(Wrap("gcloud auth login failed: ", ExitError),
           <<Ev("look-path", Nil, Nil, Nil, TRUE), Ev("auth-login", Nil, Nil, Nil, FALSE)>>,
           <<>>, kubeCtx, curProject) EXCEPT !.auth = authed],
      [Res(Wrap("application-default login failed: ", ExitError),
           <<Ev("look-path", Nil, Nil, Nil, TRUE), Ev("auth-login", Nil, Nil, Nil, TRUE),
             Ev("adc-login", Nil, Nil, Nil, FALSE)>>,
           << <<"Successfully authenticated with Google Cloud">> >>,
           kubeCtx, curProject) EXCEPT !.auth = TRUE],
      [Res(Nil,
           <<Ev("look-path", Nil, Nil, Nil, TRUE), Ev("auth-login", Nil, Nil, Nil, TRUE),
             Ev("adc-login", Nil, Nil, Nil, TRUE)>>,
           << <<"Successfully authenticated with Google Cloud">>,
              <<"Authentication complete!">> >>,
           kubeCtx, curProject) EXCEPT !.auth = TRUE] }

runLogin ==
    { [Res(<<"gcloud CLI not found">>, <<Ev("look-path", Nil, Nil, Nil, FALSE)>>,
           <<>>, kubeCtx, curProject) EXCEPT !.auth = authed],
      [Res(Wrap("gcloud auth login failed: ", ExitError),
           <<Ev("look-path", Nil, Nil, Nil, TRUE), Ev("auth-login", Nil, Nil, Nil, FALSE)>>,
           <<>>, kubeCtx, curProject) EXCEPT !.auth = authed],
      [Res(Nil,
           <<Ev("look-path", Nil, Nil, Nil, TRUE), Ev("auth-login", Nil, Nil, Nil, TRUE),
             Ev("adc-login", Nil, Nil, Nil, FALSE)>>,
           << <<"Successfully authenticated with Google Cloud">>,
              <<"Warning: Failed to set up application-default credentials">> >>,
           kubeCtx, curProject) EXCEPT !.auth = TRUE],
      [Res(Nil,
           <<Ev("look-path", Nil, Nil, Nil, TRUE), Ev("auth-login", Nil, Nil, Nil, TRUE),
             Ev("adc-login", Nil, Nil, Nil, TRUE)>>,
           << <<"Successfully authenticated with Google Cloud">>,
              <<"Authentication complete!">> >>,
           kubeCtx, curProject) EXCEPT !.auth = TRUE] }

\* a runLogout that fails when the active account cannot be queried
runLogout_ListRequired ==
    LET look == Ev("look-path", Nil, Nil, Nil, TRUE)
        account == IF authed THEN ActiveAccount ELSE <<>>
        warn == << <<"No active authentication found">> >>
    IN  { Res(<<"gcloud CLI not found">>, <<Ev("look-path", Nil, Nil, Nil, FALSE)>>,
              <<>>, kubeCtx, curProject),
          Res(Wrap("gcloud auth list failed: ", ExitError),
              <<look, Ev("auth-list", Nil, Nil, Nil, FALSE)>>, <<>>,
              kubeCtx, curProject) }
        \cup
        ( IF TrimSpace(account) = <<>>
          THEN {Res(Nil, <<look, Ev("auth-list", Nil, account, Nil, TRUE)>>, warn,
                    kubeCtx, curProject)}
          ELSE { Res(Wrap("gcloud auth revoke failed: ", ExitError),
                     <<look, Ev("auth-list", Nil, account, Nil, TRUE),
                       Ev("auth-revoke", account, Nil, Nil, FALSE)>>,
                     << <<"Revoking credentials for: ">> \o account >>,
                     kubeCtx, curProject),
                 [Res(Nil,
                      <<look, Ev("auth-list", Nil, account, Nil, TRUE),
                        Ev("auth-revoke", account, Nil, Nil, TRUE)>>,
                      << <<"Revoking credentials for: ">> \o account,
                         <<"Successfully logged out from Google Cloud">> >>,
                      kubeCtx, curProject) EXCEPT !.auth = FALSE] } )

runLogout ==
    LET look == Ev("look-path", Nil, Nil, Nil, TRUE)
        account == IF authed THEN ActiveAccount ELSE <<>>
        warn == << <<"No active authentication found">> >>
    IN  { Res(<<"gcloud CLI not found">>, <<Ev("look-path", Nil, Nil, Nil, FALSE)>>,
              <<>>, kubeCtx, curProject),
          Res(Nil, <<look, Ev("auth-list", Nil, Nil, Nil, FALSE)>>, warn,
              kubeCtx, curProject) }
        \cup
        ( IF TrimSpace(account) = <<>>
          THEN {Res(Nil, <<look, Ev("auth-list", Nil, account, Nil, TRUE)>>, warn,
                    kubeCtx, curProject)}
          ELSE { Res(Wrap("gcloud auth revoke failed: ", ExitError),
                     <<look, Ev("auth-list", Nil, account, Nil, TRUE),
                       Ev("auth-revoke", account, Nil, Nil, FALSE)>>,
                     << <<"Revoking credentials for: ">> \o account >>,
                     kubeCtx, curProject),
                 [Res(Nil,
                      <<look, Ev("auth-list", Nil, account, Nil, TRUE),
                        Ev("auth-revoke", account, Nil, Nil, TRUE)>>,
                      << <<"Revoking credentials for: ">> \o account,
                         <<"Successfully logged out from Google Cloud">> >>,
                      kubeCtx, curProject) EXCEPT !.auth = FALSE] } )

----------------------------------------------------------------------------
(* The commands: each cobra Run closure with the run function it calls *)

EnvIdentifiers == { <<"1">>, <<"2">>, <<"p1">>, <<"p2">>, <<"nope">> }

ClusterIdentifiers == { <<"1">>, <<"2">>, <<"web">>, <<"nope">> }

\* the flag combinations given to the log commands
LogFlagSets == { {}, {"follow"}, {"error", "warn"}, {"follow", "info", "debug"} }

\* a derivation that lets the least severe flag win
LevelOf_DebugFirst(flags) ==
    IF "debug" \in flags THEN "debug"
    ELSE IF "info" \in flags THEN "info"
    ELSE IF "warn" \in flags THEN "warn"
    ELSE IF "error" \in flags THEN "error"
    ELSE ""

\* the level the Run closures of the log commands derive from the flags
LevelOf(flags) ==
    IF "error" \in flags THEN "error"
    ELSE IF "warn" \in flags THEN "warn"
    ELSE IF "info" \in flags THEN "info"
    ELSE IF "debug" \in flags THEN "debug"
    ELSE ""

\* the run function made a successful get-credentials
Configured(r) ==
    \E i \in 1..Len(r.ev) : r.ev[i].k = "get-credentials" /\ r.ev[i].ok

\* a Run closure that exits with status 1 on an error, as login's does
Report_ExitOnError(name, args, r, prefix) ==
    /\ cmd' = [name |-> name, args |-> args]
    /\ trace' = r.ev
    /\ ret' = r.ret
    /\ out' = IF r.ret # Nil THEN Append(r.out, <<prefix>> \o r.ret) ELSE r.out
    /\ exitCode' = IF r.ret # Nil THEN 1 ELSE 0
    /\ authed' = r.auth
    /\ curProject' = r.proj
    /\ kubeCtx' = r.ctx
    /\ ctxBySelect' = IF Configured(r) THEN name = "cluster select" ELSE ctxBySelect
    /\ UNCHANGED <<projects, clusters, pods>>
    /\ UNCHANGED mlVars

\* a Run closure that prints the error and returns
Report(name, args, r, prefix) ==
    /\ cmd' = [name |-> name, args |-> args]
    /\ trace' = r.ev
    /\ ret' = r.ret
    /\ out' = IF r.ret # Nil THEN Append(r.out, <<prefix>> \o r.ret) ELSE r.out
    /\ exitCode' = 0
    /\ authed' = r.auth
    /\ curProject' = r.proj
    /\ kubeCtx' = r.ctx
    /\ ctxBySelect' = IF Configured(r) THEN name = "cluster select" ELSE ctxBySelect
    /\ UNCHANGED <<projects, clusters, pods>>
    /\ UNCHANGED mlVars

\* a Run closure that prints the error to stderr and calls os.Exit(1)
ReportOrExit(name, r, prefix) ==
    /\ cmd' = [name |-> name, args |-> <<>>]
    /\ trace' = r.ev
    /\ ret' = r.ret
    /\ out' = IF r.ret # Nil THEN Append(r.out, <<prefix>> \o r.ret) ELSE r.out
    /\ exitCode' = IF r.ret # Nil THEN 1 ELSE 0
    /\ authed' = r.auth
    /\ curProject' = r.proj
    /\ kubeCtx' = r.ctx
    /\ ctxBySelect' = IF Configured(r) THEN name = "cluster select" ELSE ctxBySelect
    /\ UNCHANGED <<projects, clusters, pods>>
    /\ UNCHANGED mlVars

\* no command is running: the tool is run once per process
Idle == mainPc = "idle" /\ cmd.name = "none"

Login == Idle /\ \E r \in runLogin : ReportOrExit("login", r, "Error during login: ")

Logout == Idle /\ \E r \in runLogout : ReportOrExit("logout", r, "Error during logout: ")

EnvList ==
    /\ Idle
    /\ \E showStatus \in BOOLEAN : \E r \in listEnvironments(showStatus) :
          Report("env list", IF showStatus THEN << <<"--status">> >> ELSE <<>>, r,
                 "Error listing environments: ")

EnvSelect ==
    /\ Idle
    /\ \/ \E r \in selectEnvironmentInteractive :
             Report("env select", <<>>, r, "Error selecting environment: ")
       \/ \E id \in EnvIdentifiers : \E r \in selectEnvironment(id) :
             Report("env select", <<id>>, r, "Error selecting environment: ")

ClusterList ==
    Idle /\ \E r \in listClusters : Report("cluster list", <<>>, r, "Error listing clusters: ")

ClusterSelect ==
    /\ Idle
    /\ \/ \E r \in selectClusterInteractive :
             Report("cluster select", <<>>, r, "Error selecting cluster: ")
       \/ \E id \in ClusterIdentifiers : \E r \in selectClusterByIdentifier(id) :
             Report("cluster select", <<id>>, r, "Error selecting cluster: ")

PodList ==
    /\ Idle
    /\ \E showStatus \in BOOLEAN : \E r \in listPods(showStatus) :
          Report("pod list", IF showStatus THEN << <<"--status">> >> ELSE <<>>, r,
                 "Error listing pods: ")

FlagArgs(flags) ==
    (IF "follow" \in flags THEN << <<"--follow">> >> ELSE <<>>)
    \o (IF "error" \in flags THEN << <<"--error">> >> ELSE <<>>)
    \o (IF "warn" \in flags THEN << <<"--warn">> >> ELSE <<>>)
    \o (IF "info" \in flags THEN << <<"--info">> >> ELSE <<>>)
    \o (IF "debug" \in flags THEN << <<"--debug">> >> ELSE <<>>)
    \o (IF "all" \in flags THEN << <<"--all">> >> ELSE <<>>)

PodLogs ==
    /\ Idle
    /\ \E f \in LogFlagSets : \E allPods \in BOOLEAN :
       \E r \in runPodLogs("follow" \in f, LevelOf(f), allPods) :
          Report("pod logs", FlagArgs(IF allPods THEN f \cup {"all"} ELSE f), r,
                 "Error viewing logs: ")

PodShell == Idle /\ \E r \in runPodShell : Report("pod shell", <<>>, r, "Error accessing shell: ")

Logs ==
    /\ Idle
    /\ \E f \in LogFlagSets : \E r \in runPodLogs("follow" \in f, LevelOf(f), FALSE) :
          Report("logs", FlagArgs(f), r, "Error viewing logs: ")

Shell == Idle /\ \E r \in runPodShell : Report("shell", <<>>, r, "Error accessing shell: ")

RailsConsole ==
    Idle /\ \E r \in runRailsConsole :
               Report("rails console", <<>>, r, "Error accessing Rails console: ")

RailsLogs ==
    /\ Idle
    /\ \E f \in LogFlagSets : \E r \in runPodLogs("follow" \in f, LevelOf(f), FALSE) :
          Report("rails logs", FlagArgs(f), r, "Error viewing logs: ")

\* the process of the last command has ended; the next one starts afresh
ProcessExit ==
    /\ cmd.name # "none"
    /\ cmd' = [name |-> "none", args |-> <<>>]
    /\ trace' = <<>>
    /\ out' = <<>>
    /\ ret' = Nil
    /\ exitCode' = 0
    /\ UNCHANGED worldVars
    /\ UNCHANGED mlVars

----------------------------------------------------------------------------
(* The tool: any command, any number of times *)

NoLogTasks ==
    /\ mlPods = <<>>
    /\ mlOutcome = <<>>
    /\ mlNext = 1
    /\ taskPc = <<>>
    /\ wg = 0
    /\ errCh = <<>>
    /\ chClosed = FALSE
    /\ closerPc = "idle"
    /\ firstErr = Nil
    /\ sent = <<>>
    /\ mlRet = Nil

Init ==
    /\ authed = FALSE
    /\ \E n \in 0..MaxProjects : projects = SubSeq(AllProjects, 1, n)
    /\ curProject = <<>>
    /\ \E n \in 0..MaxClusters :
          clusters = [p \in ProjectIDs |-> SubSeq(ClusterPool(p), 1, n)]
    /\ kubeCtx = <<>>
    /\ pods \in PodLists
    /\ ctxBySelect = FALSE
    /\ cmd = [name |-> "none", args |-> <<>>]
    /\ trace = <<>>
    /\ out = <<>>
    /\ ret = Nil
    /\ exitCode = 0
    /\ mainPc = "idle"
    /\ NoLogTasks

Next ==
    \/ Login
    \/ Logout
    \/ EnvList
    \/ EnvSelect
    \/ ClusterList
    \/ ClusterSelect
    \/ PodList
    \/ PodLogs
    \/ PodShell
    \/ Logs
    \/ Shell
    \/ RailsConsole
    \/ RailsLogs
    \/ ProcessExit

Spec == Init /\ [][Next]_vars

----------------------------------------------------------------------------
(* viewMultiplePodLogs step by step: the calling goroutine, one goroutine  *)
(* per pod, and the goroutine that waits for the group and closes errCh    *)

PodId(pod) == <<pod.ns, "/", pod.name>>

Tasks == 1..Len(mlPods)

\* a channel one slot too small for the errors of all tasks
ChanCap_OneShort == Len(mlPods) - 1

\* make(chan error, len(pods))
ChanCap == Len(mlPods)

CommandAtRest ==
    /\ authed = TRUE
    /\ projects = SubSeq(AllProjects, 1, 1)
    /\ curProject = AllProjects[1].ProjectID
    /\ clusters = [p \in ProjectIDs |-> SubSeq(ClusterPool(p), 1, 1)]
    /\ kubeCtx = GkeContext(AllProjects[1].ProjectID, [Name |-> "2", Location |-> "us-central1"])
    /\ pods = <<>>
    /\ ctxBySelect = FALSE
    /\ cmd = [name |-> "pod logs", args |-> << <<"--all">> >>]
    /\ trace = <<>>
    /\ out = <<>>
    /\ ret = Nil
    /\ exitCode = 0

\* the call as runPodLogs makes it: a non-empty list of distinct pods
InitLogs ==
    /\ CommandAtRest
    /\ \E n \in 1..MaxLogPods : mlPods = [i \in 1..n |-> PodId(PodPool[i])]
    /\ mlOutcome = [i \in 1..Len(mlPods) |-> Nil]
    /\ mlNext = 1
    /\ taskPc = [i \in 1..Len(mlPods) |-> "unborn"]
    /\ wg = 0
    /\ errCh = <<>>
    /\ chClosed = FALSE
    /\ closerPc = "unborn"
    /\ mainPc = "entry"
    /\ firstErr = Nil
    /\ sent = <<>>
    /\ mlRet = Nil

\* lines 237-253: the empty-list check, and the channel is made
Enter ==
    /\ mainPc = "entry"
    /\ IF Len(mlPods) = 0
       THEN mainPc' = "returned" /\ mlRet' = <<"no pods provided">>
       ELSE mainPc' = "spawn" /\ mlRet' = mlRet
    /\ UNCHANGED <<mlPods, mlOutcome, mlNext, taskPc, wg, errCh, chClosed, closerPc,
                   firstErr, sent>>
    /\ UNCHANGED worldVars
    /\ UNCHANGED cmdVars

\* lines 255-265: one iteration of the loop: wg.Add(1) and go func()
Spawn ==
    /\ mainPc = "spawn"
    /\ mlNext <= Len(mlPods)
    /\ wg' = wg + 1
    /\ taskPc' = [taskPc EXCEPT ![mlNext] = "run"]
    /\ mlNext' = mlNext + 1
    /\ UNCHANGED <<mlPods, mlOutcome, errCh, chClosed, closerPc, mainPc, firstErr,
                   sent, mlRet>>
    /\ UNCHANGED worldVars
    /\ UNCHANGED cmdVars

\* lines 267-270: the loop is over, the closing goroutine is started
StartCloser ==
    /\ mainPc = "spawn"
    /\ mlNext > Len(mlPods)
    /\ closerPc' = "wait"
    /\ mainPc' = "range"
    /\ UNCHANGED <<mlPods, mlOutcome, mlNext, taskPc, wg, errCh, chClosed, firstErr,
                   sent, mlRet>>
    /\ UNCHANGED worldVars
    /\ UNCHANGED cmdVars

\* line 261: viewPodLogs(p, follow, level) returns in task i
TaskRun(i) ==
    /\ taskPc[i] = "run"
    /\ \E t \in viewPodLogs(mlPods[i], FALSE, "") :
          /\ mlOutcome' = [mlOutcome EXCEPT ![i] = t.err]
          /\ taskPc' = [taskPc EXCEPT ![i] = IF t.err # Nil THEN "send" ELSE "defer"]
    /\ UNCHANGED <<mlPods, mlNext, wg, errCh, chClosed, closerPc, mainPc, firstErr,
                   sent, mlRet>>
    /\ UNCHANGED worldVars
    /\ UNCHANGED cmdVars

\* line 262: errCh <- fmt.Errorf("%s: %w", p, err); blocks while the buffer is full
TaskSend(i) ==
    /\ taskPc[i] = "send"
    /\ ~chClosed
    /\ Len(errCh) < ChanCap
    /\ errCh' = Append(errCh, mlPods[i] \o <<": ">> \o mlOutcome[i])
    /\ sent' = Append(sent, mlPods[i] \o <<": ">> \o mlOutcome[i])
    /\ taskPc' = [taskPc EXCEPT ![i] = "defer"]
    /\ UNCHANGED <<mlPods, mlOutcome, mlNext, wg, chClosed, closerPc, mainPc,
                   firstErr, mlRet>>
    /\ UNCHANGED worldVars
    /\ UNCHANGED cmdVars

\* line 260: the deferred wg.Done()
TaskDone(i) ==
    /\ taskPc[i] = "defer"
    /\ wg' = wg - 1
    /\ taskPc' = [taskPc EXCEPT ![i] = "done"]
    /\ UNCHANGED <<mlPods, mlOutcome, mlNext, errCh, chClosed, closerPc, mainPc,
                   firstErr, sent, mlRet>>
    /\ UNCHANGED worldVars
    /\ UNCHANGED cmdVars

\* line 268: wg.Wait() returns once the counter is zero
CloserWait ==
    /\ closerPc = "wait"
    /\ wg = 0
    /\ closerPc' = "close"
    /\ UNCHANGED <<mlPods, mlOutcome, mlNext, taskPc, wg, errCh, chClosed, mainPc,
                   firstErr, sent, mlRet>>
    /\ UNCHANGED worldVars
    /\ UNCHANGED cmdVars

\* line 269: close(errCh)
CloserClose ==
    /\ closerPc = "close"
    /\ chClosed' = TRUE
    /\ closerPc' = "done"
    /\ UNCHANGED <<mlPods, mlOutcome, mlNext, taskPc, wg, errCh, mainPc, firstErr,
                   sent, mlRet>>
    /\ UNCHANGED worldVars
    /\ UNCHANGED cmdVars

\* a receive loop that keeps the last error instead of the first
MainRecv_KeepLast ==
    /\ mainPc = "range"
    /\ errCh # <<>>
    /\ firstErr' = Head(errCh)
    /\ errCh' = Tail(errCh)
    /\ UNCHANGED <<mlPods, mlOutcome, mlNext, taskPc, wg, chClosed, closerPc, mainPc,
                   sent, mlRet>>
    /\ UNCHANGED worldVars
    /\ UNCHANGED cmdVars

\* lines 273-277: one iteration of for err := range errCh
MainRecv ==
    /\ mainPc = "range"
    /\ errCh # <<>>
    /\ firstErr' = IF firstErr = Nil THEN Head(errCh) ELSE firstErr
    /\ errCh' = Tail(errCh)
    /\ UNCHANGED <<mlPods, mlOutcome, mlNext, taskPc, wg, chClosed, closerPc, mainPc,
                   sent, mlRet>>
    /\ UNCHANGED worldVars
    /\ UNCHANGED cmdVars

\* line 279: the range ends on the closed, drained channel; return firstErr
MainReturn ==
    /\ mainPc = "range"
    /\ errCh = <<>>
    /\ chClosed
    /\ mainPc' = "returned"
    /\ mlRet' = firstErr
    /\ UNCHANGED <<mlPods, mlOutcome, mlNext, taskPc, wg, errCh, chClosed, closerPc,
                   firstErr, sent>>
    /\ UNCHANGED worldVars
    /\ UNCHANGED cmdVars

NextLogs ==
    \/ Enter
    \/ Spawn
    \/ StartCloser
    \/ \E i \in Tasks : TaskRun(i)
    \/ \E i \in Tasks : TaskSend(i)
    \/ \E i \in Tasks : TaskDone(i)
    \/ CloserWait
    \/ CloserClose
    \/ MainRecv
    \/ MainReturn

SpecLogs == InitLogs /\ [][NextLogs]_vars

\* the Go scheduler runs every goroutine that can take a step; whether the
\* kubectl process of a task ever ends (TaskRun) is left open
FairLogs ==
    /\ WF_vars(Enter)
    /\ WF_vars(Spawn)
    /\ WF_vars(StartCloser)
    /\ \A i \in 1..(MaxLogPods + 1) : WF_vars(i \in Tasks /\ TaskSend(i))
    /\ \A i \in 1..(MaxLogPods + 1) : WF_vars(i \in Tasks /\ TaskDone(i))
    /\ WF_vars(CloserWait)
    /\ WF_vars(CloserClose)
    /\ WF_vars(MainRecv)
    /\ WF_vars(MainReturn)

SpecLogsFair == SpecLogs /\ FairLogs

----------------------------------------------------------------------------
(* Properties *)

Steps(kind) == {i \in 1..Len(trace) : trace[i].k = kind}

ReadsOf(what) == {i \in Steps("read") : trace[i].a = <<what>>}

\* steps that discover pods or act on a pod
PodStepKinds ==
    {"get-pods", "get-pods-status", "get-node", "logs-start", "grep-start", "logs",
     "grep", "exec"}

\* steps that change or use something outside the tool after a selection
ActionKinds ==
    {"get-credentials", "set-project", "get-pods", "get-pods-status", "get-node",
     "logs-start", "grep-start", "logs", "grep", "exec"}

PodCommands == {"pod list", "pod logs", "pod shell", "logs", "shell", "rails console",
                "rails logs"}

SystemNamespaces == {"kube-system", "kube-public", "kube-node-lease", "gke-system"}

ErrorLine(line) == line # <<>> /\ line[1] \in
    {"Error listing environments: ", "Error selecting environment: ",
     "Error listing clusters: ", "Error selecting cluster: ", "Error listing pods: ",
     "Error viewing logs: ", "Error accessing shell: ", "Error accessing Rails console: ",
     "Error during login: ", "Error during logout: "}

Printed(line) == \E i \in 1..Len(out) : out[i] = line

\* C1: viewMultiplePodLogs starts one log task per pod and returns only
\* after every task has finished; it returns nil exactly when every task
\* succeeded, and otherwise the first error a task reported, which is that
\* task's error prefixed with its pod's namespace/name.
C1_FirstErrorAfterAllTasks ==
    mainPc = "returned" =>
        /\ mlNext = Len(mlPods) + 1
        /\ \A i \in Tasks : taskPc[i] = "done"
        /\ (mlRet = Nil) <=> (\A i \in Tasks : mlOutcome[i] = Nil)
        /\ mlRet # Nil =>
              /\ sent # <<>>
              /\ mlRet = sent[1]
              /\ \E i \in Tasks :
                    mlOutcome[i] # Nil /\ mlRet = mlPods[i] \o <<": ">> \o mlOutcome[i]

\* three pods, two of them failed, and the later pod's error arrived first
C1_Witness ==
    /\ mainPc = "returned"
    /\ Len(mlPods) = 3
    /\ Len(sent) = 2
    /\ mlOutcome[1] # Nil
    /\ mlOutcome[3] # Nil
    /\ mlRet = mlPods[3] \o <<": ">> \o mlOutcome[3]

\* C2: every command other than login and logout ends with exit status 0
\* whatever failed, having printed a message about the failure (the error
\* line when its run function returned an error); login and logout exit
\* with status 1 exactly when their run function returned an error.
C2_CleanReturn ==
    cmd.name # "none" =>
        IF cmd.name \in {"login", "logout"}
        THEN /\ (exitCode = 1) <=> (ret # Nil)
             /\ exitCode \in {0, 1}
        ELSE /\ exitCode = 0
             /\ ret # Nil => /\ out # <<>>
                             /\ ErrorLine(out[Len(out)])
                             /\ Tail(out[Len(out)]) = ret
             /\ (\E i \in 1..Len(trace) : ~trace[i].ok) => out # <<>>

\* pod shell failed on kubectl and still exits 0
C2_Witness ==
    /\ cmd.name = "pod shell"
    /\ ret = <<"failed to find application pods: ">> \o ExitError
    /\ exitCode = 0

\* C3 as claimed: in every command that prompts, entering q prints
\* "Cancelled.", prints no error line, returns nil and is followed by no
\* further external action.
C3_CancelEverywhere ==
    \A i \in Steps("read") :
        (trace[i].ok /\ trace[i].b = <<"q">>) =>
            /\ Printed(<<"Cancelled.">>)
            /\ \A j \in 1..Len(out) : ~ErrorLine(out[j])
            /\ ret = Nil
            /\ \A j \in (i + 1)..Len(trace) : trace[j].k \notin ActionKinds

\* C3 amended: at the cluster and pod prompts (the ones that offer q),
\* entering q prints "Cancelled.", prints no error line, returns nil and is
\* followed by no further external action; at the environment prompt q is
\* answered with "Invalid selection: q", nil is returned and no project
\* switch or other external action follows.
C3_CancelAtClusterAndPodPrompts ==
    \A i \in Steps("read") :
        (trace[i].ok /\ trace[i].b = <<"q">>) =>
            /\ ret = Nil
            /\ \A j \in 1..Len(out) : ~ErrorLine(out[j])
            /\ \A j \in (i + 1)..Len(trace) : trace[j].k \notin ActionKinds
            /\ i = Len(trace)
            /\ IF trace[i].a = <<"environment">>
               THEN /\ out[Len(out)] = <<"Invalid selection: ", "q">>
                    /\ ~Printed(<<"Cancelled.">>)
               ELSE out[Len(out)] = <<"Cancelled.">>

\* q typed at the pod prompt after kubectl was configured for a chosen cluster
C3_Witness ==
    /\ cmd.name = "rails console"
    /\ \E i \in ReadsOf("pod") : trace[i].b = <<"q">>
    /\ \E i \in Steps("get-credentials") : trace[i].ok
    /\ Printed(<<"Cancelled.">>)


\* SetupClusterIfNeeded found kubectl configured and working: cluster-info
\* succeeded and current-context returned a non-empty context
UsedCurrentContext(t) ==
    \E i \in 1..(Len(t) - 1) :
        /\ t[i].k = "cluster-info" /\ t[i].ok
        /\ t[i + 1].k = "current-context" /\ t[i + 1].ok
        /\ TrimSpace(t[i + 1].a) # <<>>

\* SetupClusterIfNeeded found kubectl not configured: cluster-info failed,
\* or current-context failed or returned nothing
FoundNotConfigured(t) ==
    \E i \in 1..Len(t) :
        \/ t[i].k = "cluster-info" /\ ~t[i].ok
        \/ /\ t[i].k = "cluster-info" /\ t[i].ok
           /\ i < Len(t)
           /\ t[i + 1].k = "current-context"
           /\ (~t[i + 1].ok \/ TrimSpace(t[i + 1].a) = <<>>)

\* C4: when kubectl is configured and working, SetupClusterIfNeeded returns
\* nil (the command goes straight on to pod discovery) without listing
\* clusters, prompting for one or getting credentials, and the kubectl
\* context is left as it was.
C4_CurrentContextKept ==
    [][ (cmd'.name \in PodCommands /\ UsedCurrentContext(trace')) =>
           /\ \A i \in 1..Len(trace') :
                 /\ trace'[i].k \notin {"clusters-list", "get-credentials"}
                 /\ ~(trace'[i].k = "read" /\ trace'[i].a = <<"cluster">>)
           /\ \E i \in 2..(Len(trace') - 1) :
                 /\ trace'[i].k = "current-context"
                 /\ trace'[i - 1].k = "cluster-info"
                 /\ trace'[i + 1].k \in {"get-pods", "get-pods-status"}
           /\ kubeCtx' = kubeCtx ]_vars

\* a pod command ran on the context an earlier command had configured
C4_Witness ==
    /\ cmd.name = "pod list"
    /\ UsedCurrentContext(trace)
    /\ kubeCtx # <<>>
    /\ \E i \in Steps("get-pods-status") : trace[i].ok

\* C5: when kubectl is not configured, every pod discovery or pod action of
\* the command comes after a successful get-credentials for a cluster that
\* the preceding successful cluster listing of the project reported (the
\* only one, or the one chosen at the prompt); so when the listing fails or
\* is empty, the selection fails or get-credentials fails, no pod discovery
\* or pod action runs.
C5_ConfigureBeforePods ==
    (cmd.name \in PodCommands /\ FoundNotConfigured(trace)) =>
        \A j \in 1..Len(trace) :
            trace[j].k \in PodStepKinds =>
                \E h \in 1..(j - 1), i \in 1..(j - 1) :
                    /\ h < i
                    /\ trace[h].k = "clusters-list" /\ trace[h].ok
                    /\ trace[i].k = "get-credentials" /\ trace[i].ok
                    /\ trace[i].b = trace[h].a
                    /\ \E c \in 1..Len(clusters[trace[h].a]) :
                          /\ trace[i].a = <<clusters[trace[h].a][c][1]>>
                          /\ trace[i].c = <<clusters[trace[h].a][c][2]>>
                          /\ \/ Len(clusters[trace[h].a]) = 1
                             \/ \E r \in ReadsOf("cluster") :
                                   h < r /\ r < i /\ Atoi(TrimSpace(trace[r].b)).num = c
                    /\ kubeCtx # <<>>

\* cluster-info failed, the second cluster was chosen and a shell was opened
C5_Witness ==
    /\ cmd.name = "pod shell"
    /\ Len(trace) >= 3
    /\ trace[3].k = "cluster-info" /\ ~trace[3].ok
    /\ \E r \in ReadsOf("cluster") : trace[r].b = <<"2">>
    /\ \E i \in Steps("exec") : trace[i].ok

\* commands that call SelectCluster on the clusters they listed
SelectsCluster ==
    \/ cmd.name \in PodCommands
    \/ cmd.name = "cluster select" /\ Len(cmd.args) = 0

\* C6: with exactly one cluster available SelectCluster returns it without
\* reading input (the next step is get-credentials for that cluster); with
\* two or more it prompts and reads exactly one line.
C6_SingleClusterNotPrompted ==
    SelectsCluster =>
        \A h \in Steps("clusters-list") :
            trace[h].ok =>
                LET n == Len(clusters[trace[h].a])
                IN  /\ n = 1 =>
                          /\ ReadsOf("cluster") = {}
                          /\ h < Len(trace)
                          /\ trace[h + 1].k = "get-credentials"
                          /\ trace[h + 1].a = <<clusters[trace[h].a][1][1]>>
                    /\ n >= 2 =>
                          /\ ReadsOf("cluster") = {h + 1}

\* the only cluster was taken without a prompt and kubectl configured for it
C6_Witness ==
    /\ cmd.name = "cluster select"
    /\ Len(cmd.args) = 0
    /\ \E h \in Steps("clusters-list") : trace[h].ok /\ Len(clusters[trace[h].a]) = 1
    /\ ReadsOf("cluster") = {}
    /\ \E i \in Steps("get-credentials") : trace[i].ok

\* C7 as claimed: env select without an argument switches to the only
\* accessible project without reading input, and prompts when there are
\* several.
C7_SingleProjectAutoSelected ==
    (/\ cmd.name = "env select"
     /\ Len(cmd.args) = 0
     /\ \E i \in Steps("projects-list") : trace[i].ok) =>
        /\ Len(projects) = 1 =>
              /\ ReadsOf("environment") = {}
              /\ \E i \in Steps("set-project") : trace[i].a = projects[1].ProjectID
        /\ Len(projects) >= 2 => ReadsOf("environment") # {}

\* the application pods FindApplicationPods returns in the current state
ApplicationPods == AppPodsFrom(CustomColumnsLines(pods))

\* C8 as claimed: when exactly one application pod is available, the
\* commands that select a pod take it without reading input.
C8_SinglePodAutoSelected ==
    (/\ cmd.name \in PodCommands
     /\ \E i \in Steps("get-pods") : trace[i].ok
     /\ "--all" \notin {cmd.args[i][1] : i \in 1..Len(cmd.args)}
     /\ Len(ApplicationPods) = 1) =>
        /\ ReadsOf("pod") = {}
        /\ \E i \in 1..Len(trace) :
              /\ trace[i].k \in {"exec", "logs", "logs-start"}
              /\ trace[i].a \o <<"/">> \o trace[i].b = ApplicationPods[1]

\* C9: no pod of a system namespace is returned by FindApplicationPods or
\* GetDetailedPodInfo, and none is shown in a list or menu or is the
\* target of a logs, shell or console invocation.
C9_NoSystemPods ==
    /\ \A r \in FindApplicationPods(pods) :
          \A i \in 1..Len(r.val) : r.val[i][1] \notin SystemNamespaces
    /\ \A r \in GetDetailedPodInfo(pods) :
          \A i \in 1..Len(r.val) : r.val[i].Namespace \notin SystemNamespaces
    /\ \A i \in 1..Len(out) :
          out[i][1] \in {"pod", "row", "viewing"} /\ cmd.name \in PodCommands
             => \A n \in 1..Len(out[i]) : out[i][n] \notin SystemNamespaces
    /\ \A i \in 1..Len(trace) :
          trace[i].k \in {"exec", "logs", "logs-start"}
             => \A n \in 1..Len(trace[i].a) : trace[i].a[n] \notin SystemNamespaces

\* the cluster has a running system pod next to an application pod, the
\* pods were listed and only the application pod is shown
C9_Witness ==
    /\ cmd.name = "pod list"
    /\ \E i \in 1..Len(pods) : pods[i].ns \in SystemNamespaces /\ pods[i].status = "Running"
    /\ \E i \in 1..Len(out) : out[i][1] = "row"
    /\ \E i \in Steps("get-node") : trace[i].a[1] \in SystemNamespaces

ExecSteps == SelectSeq(trace, LAMBDA e : e.k = "exec")

\* C10: connectToShell runs kubectl exec with /bin/bash, then /bin/zsh, then
\* /bin/sh: each attempt follows only failed attempts, nothing follows a
\* success, the result is nil on the first success and "no suitable shell
\* found in pod" after three failures.
C10_ShellOrder ==
    cmd.name \in {"pod shell", "shell"} =>
        LET attempts == ExecSteps
            order == <<"/bin/bash", "/bin/zsh", "/bin/sh">>
        IN  /\ Len(attempts) <= 3
            /\ \A j \in 1..Len(attempts) :
                  /\ attempts[j].c = <<order[j]>>
                  /\ j < Len(attempts) => ~attempts[j].ok
            /\ attempts # <<>> =>
                  /\ trace[Len(trace)].k = "exec"
                  /\ IF attempts[Len(attempts)].ok
                     THEN ret = Nil
                     ELSE Len(attempts) = 3 /\ ret = <<"no suitable shell found in pod">>
            /\ ret = <<"no suitable shell found in pod">> =>
                  Len(attempts) = 3 /\ \A j \in 1..3 : ~attempts[j].ok

\* bash and zsh failed, sh succeeded
C10_Witness ==
    /\ cmd.name = "pod shell"
    /\ Len(ExecSteps) = 3
    /\ ExecSteps[3].ok
    /\ ret = Nil

\* C11: connectToRailsConsole runs kubectl exec with sh -c and, in this
\* order, bundle exec rails console, bundle exec rails c, rails console,
\* rails c, bin/rails console, bin/rails c: each attempt follows only failed
\* attempts and the first success ends the call with nil; only after six
\* failures is /bin/bash run, and its result is the result of the call.
C11_ConsoleOrder ==
    cmd.name = "rails console" =>
        LET attempts == ExecSteps
            order == <<"bundle exec rails console", "bundle exec rails c",
                       "rails console", "rails c", "bin/rails console", "bin/rails c">>
        IN  /\ Len(attempts) <= 7
            /\ \A j \in 1..Len(attempts) :
                  /\ j <= 6 => attempts[j].c = <<"sh", "-c", order[j]>>
                  /\ j = 7 => attempts[j].c = <<"/bin/bash">>
                  /\ j < Len(attempts) => ~attempts[j].ok
            /\ attempts # <<>> =>
                  /\ trace[Len(trace)].k = "exec"
                  /\ IF attempts[Len(attempts)].ok
                     THEN ret = Nil
                     ELSE Len(attempts) = 7 /\ ret = ExitError
            /\ (\E j \in 1..Len(attempts) : attempts[j].c = <<"/bin/bash">>) =>
                  /\ Len(attempts) = 7
                  /\ \A j \in 1..6 : ~attempts[j].ok

\* the first four console commands failed and bin/rails console started
C11_Witness ==
    /\ cmd.name = "rails console"
    /\ Len(ExecSteps) = 5
    /\ ExecSteps[5].ok
    /\ ExecSteps[5].c = <<"sh", "-c", "bin/rails console">>
    /\ ret = Nil

\* the projects whose ID or name is the argument of the last command
MatchesArg(i) ==
    projects[i].ProjectID = cmd.args[1] \/ projects[i].Name = cmd.args[1]

\* C12: env select X, once the projects are listed: when X is a number n
\* within 1..number of projects, the switch is to the project that env list
\* prints as number n; otherwise the switch is to the first listed project
\* whose ID or name equals X, and there is no switch when there is none; the
\* project switched to is always one of the listed projects.
C12_EnvSelectByIdentifier ==
    (/\ cmd.name = "env select"
     /\ Len(cmd.args) = 1
     /\ \E i \in Steps("projects-list") : trace[i].ok) =>
        LET X == cmd.args[1]
            n == Atoi(X)
            switches == Steps("set-project")
            listed == EnvLines(projects, curProject, [i \in 1..Len(projects) |-> ""])
        IN  /\ Cardinality(switches) <= 1
            /\ \A s \in switches :
                  /\ s = Len(trace)
                  /\ \E i \in 1..Len(projects) : trace[s].a = projects[i].ProjectID
                  /\ trace[s].ok => curProject = trace[s].a
            /\ IF n.ok /\ n.num >= 1 /\ n.num <= Len(projects)
               THEN /\ switches # {}
                    /\ \A s \in switches :
                          /\ trace[s].a = projects[n.num].ProjectID
                          /\ SubSeq(listed[n.num], 2, 3 + Len(trace[s].a))
                                = <<DigitChars[n.num + 1], ". ">> \o trace[s].a
               ELSE IF \E i \in 1..Len(projects) : MatchesArg(i)
               THEN /\ switches # {}
                    /\ \A s \in switches :
                          \E i \in 1..Len(projects) :
                              /\ MatchesArg(i)
                              /\ \A j \in 1..(i - 1) : ~MatchesArg(j)
                              /\ trace[s].a = projects[i].ProjectID
               ELSE /\ switches = {}
                    /\ projects # <<>> =>
                          Printed(<<"Environment '">> \o X \o <<"' not found.">>)

\* env select 2 with two projects, the first of them named "2": the number
\* wins and the second project is switched to
C12_Witness ==
    /\ cmd.name = "env select"
    /\ cmd.args = << <<"2">> >>
    /\ Len(projects) = 2
    /\ projects[1].Name = <<"2">>
    /\ curProject = projects[2].ProjectID
    /\ \E s \in Steps("set-project") : trace[s].ok

\* C13: cluster select X, once the clusters of the current project are
\* listed: when X is a number n within 1..number of clusters, kubectl is
\* configured for the cluster that cluster list prints as number n;
\* otherwise for the first listed cluster whose name equals X, and not at
\* all when there is none; get-credentials is run only for a cluster of the
\* listing of the current project, with that cluster's own location.
C13_ClusterSelectByIdentifier ==
    cmd.name = "cluster select" =>
        \A h \in Steps("clusters-list") :
            trace[h].ok =>
                LET project == trace[h].a
                    cl == clusters[project]
                    creds == Steps("get-credentials")
                    IsCluster(s, i) == /\ trace[s].a = <<cl[i][1]>>
                                       /\ trace[s].c = <<cl[i][2]>>
                                       /\ trace[s].b = project
                    Named(i) == <<cl[i][1]>> = cmd.args[1]
                IN  /\ project = TrimSpace(curProject)
                    /\ Cardinality(creds) <= 1
                    /\ \A s \in creds :
                          /\ s = Len(trace)
                          /\ \E i \in 1..Len(cl) : IsCluster(s, i)
                    /\ Len(cmd.args) = 1 =>
                          LET n == Atoi(cmd.args[1])
                              listed == ClusterLines(
                                          (CHOOSE g \in GetGKEClusters(project) :
                                              g.err = Nil).val, kubeCtx)
                          IN  IF n.ok /\ n.num >= 1 /\ n.num <= Len(cl)
                              THEN /\ creds # {}
                                   /\ \A s \in creds :
                                         /\ IsCluster(s, n.num)
                                         /\ <<DigitChars[n.num + 1], ". ">> \o trace[s].a
                                               \o trace[s].c
                                            = Tail(listed[n.num])
                              ELSE IF \E i \in 1..Len(cl) : Named(i)
                              THEN /\ creds # {}
                                   /\ \A s \in creds :
                                         \E i \in 1..Len(cl) :
                                             /\ Named(i)
                                             /\ \A j \in 1..(i - 1) : ~Named(j)
                                             /\ IsCluster(s, i)
                              ELSE creds = {}

\* cluster select 2 with two clusters, the first of them named "2": the
\* number wins and kubectl is configured for the second cluster
C13_Witness ==
    /\ cmd.name = "cluster select"
    /\ cmd.args = << <<"2">> >>
    /\ \E s \in Steps("get-credentials") :
          /\ trace[s].ok
          /\ Len(clusters[trace[s].b]) = 2
          /\ clusters[trace[s].b][1][1] = "2"
          /\ trace[s].a = <<clusters[trace[s].b][2][1]>>
          /\ kubeCtx = <<"gke_">> \o trace[s].b
                        \o <<"_", clusters[trace[s].b][2][2], "_", clusters[trace[s].b][2][1]>>

\* the last command was given --all
AllFlag == <<"--all">> \in {cmd.args[i] : i \in 1..Len(cmd.args)}

\* the read at step r is a line that selects candidate number i
ReadSelects(r, i) ==
    /\ trace[r].ok
    /\ Atoi(TrimSpace(trace[r].b)).ok
    /\ Atoi(TrimSpace(trace[r].b)).num = i

\* C14: in every command other than login and logout the first step is the
\* authentication check and every other step (discovery, selection, action)
\* follows a passed check; every action (project switch, get-credentials,
\* kubectl logs or exec) follows a successful discovery and acts on one of
\* the discovered candidates, the one selected: by the line read at the
\* prompt, by the identifier given, or automatically (the only cluster, or
\* every pod under --all).
C14_CheckDiscoverSelectAct ==
    cmd.name \notin {"none", "login", "logout"} =>
        /\ trace # <<>>
        /\ trace[1].k = "auth-list"
        /\ \A j \in 2..Len(trace) :
              trace[1].ok /\ authed /\ trace[j].k # "auth-list"
        /\ \A j \in Steps("set-project") :
              \E d \in Steps("projects-list"), i \in 1..Len(projects) :
                  /\ d < j /\ trace[d].ok
                  /\ trace[j].a = projects[i].ProjectID
                  /\ IF cmd.args = <<>>
                     THEN \E r \in ReadsOf("environment") :
                              d < r /\ r < j /\ ReadSelects(r, i)
                     ELSE \/ Atoi(cmd.args[1]).ok /\ Atoi(cmd.args[1]).num = i
                          \/ MatchesArg(i)
        /\ \A j \in Steps("get-credentials") :
              \E d \in Steps("clusters-list") :
                  /\ d < j /\ trace[d].ok
                  /\ trace[j].b = trace[d].a
                  /\ \E i \in 1..Len(clusters[trace[d].a]) :
                        /\ trace[j].a = <<clusters[trace[d].a][i][1]>>
                        /\ trace[j].c = <<clusters[trace[d].a][i][2]>>
                        /\ IF cmd.name = "cluster select" /\ cmd.args # <<>>
                           THEN \/ Atoi(cmd.args[1]).ok /\ Atoi(cmd.args[1]).num = i
                                \/ trace[j].a = cmd.args[1]
                           ELSE \/ Len(clusters[trace[d].a]) = 1 /\ j = d + 1
                                \/ /\ d + 1 \in ReadsOf("cluster")
                                   /\ ReadSelects(d + 1, i)
                                   /\ j = d + 2
        /\ \A j \in Steps("logs") \cup Steps("logs-start") \cup Steps("exec") :
              \E d \in Steps("get-pods"), i \in 1..Len(ApplicationPods) :
                  /\ d < j /\ trace[d].ok
                  /\ trace[j].a \o <<"/">> \o trace[j].b = ApplicationPods[i]
                  /\ \/ AllFlag
                     \/ /\ d + 1 \in ReadsOf("pod")
                        /\ ReadSelects(d + 1, i)
                        /\ d + 1 < j
        /\ \A j \in Steps("grep-start") \cup Steps("grep") :
              \E l \in Steps("logs-start") : l < j /\ trace[l].ok

\* pod shell went through every stage: the check, the cluster listing and
\* prompt, get-credentials, the pod listing and prompt, and the shell
C14_Witness ==
    /\ cmd.name = "pod shell"
    /\ ReadsOf("cluster") # {}
    /\ ReadsOf("pod") # {}
    /\ \E j \in Steps("get-credentials") : trace[j].ok
    /\ \E j \in Steps("exec") : trace[j].ok

\* the kubectl context is the one get-credentials makes for a cluster that
\* the given project lists
ContextOfProject(ctx, projectID) ==
    \E i \in 1..Len(clusters[projectID]) :
        ctx = <<"gke_">> \o projectID
              \o <<"_", clusters[projectID][i][2], "_", clusters[projectID][i][1]>>

\* C15 as claimed: once env select has switched to project P, every pod
\* command that reaches the cluster (lists pods, shows logs, opens a shell
\* or console) does so on a cluster of P, whatever env select and cluster
\* select commands came before.
C15_PodCommandsUseSelectedProject ==
    (/\ cmd.name \in PodCommands
     /\ \E j \in 1..Len(trace) : trace[j].k \in PodStepKinds) =>
        /\ curProject \in ProjectIDs
        /\ ContextOfProject(kubeCtx, curProject)

\* C16 as claimed: from a successful cluster select until the next one,
\* every pod command that gets as far as the cluster uses the selected
\* cluster: it lists no clusters, asks for none, configures none, and the
\* kubectl context stays the selected one.
C16_SelectedClusterAlwaysUsed ==
    [][ (/\ ctxBySelect
         /\ cmd'.name \in PodCommands
         /\ \E i \in 1..Len(trace') : trace'[i].k = "cluster-info") =>
            /\ \A i \in 1..Len(trace') :
                  /\ trace'[i].k \notin {"clusters-list", "get-credentials"}
                  /\ ~(trace'[i].k = "read" /\ trace'[i].a = <<"cluster">>)
            /\ kubeCtx' = kubeCtx ]_vars

\* C16 amended: a successful cluster select leaves the kubectl context
\* that of the selected cluster of the current project; the context changes
\* only with a successful get-credentials (of cluster select, or of a pod
\* command that found kubectl not configured or not working); and every
\* later pod command that finds kubectl configured and working uses the
\* selected context without listing, asking for or configuring a cluster,
\* while one that does not find it so lists the clusters again.
C16_SelectedClusterUsedWhenWorking ==
    [][ /\ (cmd'.name = "cluster select" /\ ret' = Nil
             /\ \E i \in 1..Len(trace') : trace'[i].k = "get-credentials") =>
               LET s == Len(trace')
               IN  /\ trace'[s].k = "get-credentials" /\ trace'[s].ok
                   /\ trace'[s].b = TrimSpace(curProject)
                   /\ kubeCtx' = <<"gke_">> \o trace'[s].b
                                  \o <<"_">> \o trace'[s].c \o <<"_">> \o trace'[s].a
                   /\ ContextOfProject(kubeCtx', trace'[s].b)
                   /\ ctxBySelect'
        /\ kubeCtx' # kubeCtx =>
               \E i \in 1..Len(trace') : trace'[i].k = "get-credentials" /\ trace'[i].ok
        /\ (ctxBySelect /\ cmd'.name \in PodCommands /\ UsedCurrentContext(trace')) =>
               /\ \A i \in 1..Len(trace') :
                     /\ trace'[i].k \notin {"clusters-list", "get-credentials"}
                     /\ ~(trace'[i].k = "read" /\ trace'[i].a = <<"cluster">>)
               /\ kubeCtx' = kubeCtx
               /\ ctxBySelect'
        /\ (ctxBySelect /\ cmd'.name \in PodCommands /\ FoundNotConfigured(trace')) =>
               \E i \in 1..Len(trace') : trace'[i].k = "clusters-list" ]_vars

\* after cluster select chose the second cluster at its prompt, pod shell
\* found kubectl working and opened a shell without asking for a cluster
C16_Witness ==
    /\ ctxBySelect
    /\ cmd.name = "pod shell"
    /\ UsedCurrentContext(trace)
    /\ ReadsOf("cluster") = {}
    /\ \E i \in 1..Len(clusters[curProject]) :
          i = 2 /\ kubeCtx = <<"gke_">> \o curProject
                              \o <<"_", clusters[curProject][i][2], "_",
                                    clusters[curProject][i][1]>>
    /\ \E i \in Steps("exec") : trace[i].ok

\* the pods of the cluster that pod list is to show, in kubectl order
ShownPods ==
    SelectSeq(pods, LAMBDA pod :
        /\ pod.ns \notin SystemNamespaces
        /\ pod.status \in {"Running", "Pending", "CrashLoopBackOff", "Error"})

\* C17: when kubectl get pods succeeds, GetDetailedPodInfo returns, in
\* kubectl output order, exactly the pods of non-system namespaces whose
\* STATUS is Running, Pending, CrashLoopBackOff or Error, each with its
\* own namespace, name and status, and pod list prints one row for each of
\* them in that order.
C17_DetailedPods ==
    /\ \A r \in GetDetailedPodInfo(pods) :
          r.err = Nil =>
              /\ Len(r.val) = Len(ShownPods)
              /\ \A i \in 1..Len(r.val) :
                    /\ r.val[i].Namespace = ShownPods[i].ns
                    /\ r.val[i].Name = ShownPods[i].name
                    /\ r.val[i].Status = ShownPods[i].status
    /\ (cmd.name = "pod list" /\ \E i \in Steps("get-pods-status") : trace[i].ok) =>
          LET rows == SelectSeq(out, LAMBDA line : line[1] = "row")
          IN  /\ Len(rows) = Len(ShownPods)
              /\ \A i \in 1..Len(rows) :
                    SubSeq(rows[i], 2, 3) = <<ShownPods[i].ns, ShownPods[i].name>>

\* pod list on a cluster with a crash-looping application pod followed by
\* a running system pod printed the application pod only
C17_Witness ==
    /\ cmd.name = "pod list"
    /\ Len(pods) = 2
    /\ pods[1].status = "CrashLoopBackOff"
    /\ pods[2].ns \in SystemNamespaces
    /\ \E i \in Steps("get-pods-status") : trace[i].ok
    /\ Len(SelectSeq(out, LAMBDA line : line[1] = "row")) = 1

\* the pods a selecting command is to offer: non-system, phase Running
RunningPods ==
    SelectSeq(pods, LAMBDA pod : pod.ns \notin SystemNamespaces /\ pod.phase = "Running")

\* C18: pod shell, pod logs without --all, rails logs and rails console
\* (and the shortcuts shell and logs) all print the same numbered menu: line
\* n is the n-th non-system pod with phase Running in kubectl output
\* order; and a valid number n typed at the prompt makes every one of them
\* act on that n-th pod.
C18_SameNumberedMenu ==
    (/\ cmd.name \in {"pod shell", "pod logs", "rails logs", "rails console",
                       "shell", "logs"}
     /\ ~AllFlag
     /\ ReadsOf("pod") # {}) =>
        LET menu == SelectSeq(out, LAMBDA line : line[1] = "pod")
            acts == Steps("logs") \cup Steps("logs-start") \cup Steps("exec")
        IN  /\ Len(menu) = Len(RunningPods)
            /\ \A i \in 1..Len(menu) :
                  menu[i] = <<"pod", DigitChars[i + 1], ". ",
                              RunningPods[i].ns, "/", RunningPods[i].name>>
            /\ Cardinality(ReadsOf("pod")) = 1
            /\ \A r \in ReadsOf("pod") :
                  \A n \in 1..Len(RunningPods) :
                      ReadSelects(r, n) =>
                          /\ acts # {}
                          /\ \A j \in acts :
                                /\ r < j
                                /\ trace[j].a = <<RunningPods[n].ns>>
                                /\ trace[j].b = <<RunningPods[n].name>>
            /\ (\A r \in ReadsOf("pod") :
                   ~\E n \in 1..Len(RunningPods) : ReadSelects(r, n)) => acts = {}

\* rails console, two running application pods among the cluster's pods:
\* number 2 was typed and the console opened in the second of them
C18_Witness ==
    /\ cmd.name = "rails console"
    /\ Len(RunningPods) = 2
    /\ \E r \in ReadsOf("pod") : ReadSelects(r, 2)
    /\ \E j \in Steps("exec") :
          /\ trace[j].ok
          /\ trace[j].b = <<RunningPods[2].name>>

\* the log invocation of task i has ended
Terminated(i) == i \in Tasks => taskPc[i] \in {"send", "defer", "done"}

\* C19: if every per-pod log invocation ends, viewMultiplePodLogs returns;
\* a task that has an error to deliver always finds room in the channel;
\* and the call has not returned while any per-pod invocation has not ended.
C19_NoDeadlock ==
    /\ (\A i \in 1..MaxLogPods : <>Terminated(i)) => <>(mainPc = "returned")
    /\ [](\A i \in Tasks : taskPc[i] = "send" => (Len(errCh) < ChanCap /\ ~chClosed))
    /\ [](mainPc = "returned" => \A i \in Tasks : Terminated(i))

\* three pods, every one of them failed, and the call returned
C19_Witness ==
    /\ mainPc = "returned"
    /\ Len(mlPods) = 3
    /\ Len(sent) = 3
    /\ mlRet # Nil

\* C20: in login, the application-default login is run exactly when gcloud
\* was found and gcloud auth login succeeded; its failure gives a warning, a
\* nil result and exit status 0; a missing gcloud or a failed gcloud auth
\* login gives an error and exit status 1, without an application-default
\* login.
C20_LoginSurvivesAdcFailure ==
    cmd.name = "login" =>
        LET adc == Steps("adc-login")
            login == Steps("auth-login")
            Failed(kind) == \E i \in Steps(kind) : ~trace[i].ok
        IN  /\ trace # <<>> /\ trace[1].k = "look-path"
            /\ adc # {} <=> (trace[1].ok /\ \E i \in login : trace[i].ok)
            /\ \A j \in adc : j = 3 /\ trace[2].k = "auth-login"
            /\ Failed("adc-login") =>
                  /\ ret = Nil
                  /\ exitCode = 0
                  /\ out[Len(out)] =
                        <<"Warning: Failed to set up application-default credentials">>
                  /\ \A i \in 1..Len(out) : ~ErrorLine(out[i])
            /\ (Failed("look-path") \/ Failed("auth-login")) =>
                  /\ ret # Nil
                  /\ exitCode = 1
                  /\ adc = {}
                  /\ ErrorLine(out[Len(out)])
            /\ Failed("look-path") => login = {}

\* gcloud auth login succeeded, the application-default login failed, and
\* login ended with status 0 and the user logged in
C20_Witness ==
    /\ cmd.name = "login"
    /\ \E i \in Steps("adc-login") : ~trace[i].ok
    /\ exitCode = 0
    /\ authed

\* the last env select resolved its identifier or its input to listed project i
ResolvesTo(i) ==
    /\ i \in 1..Len(projects)
    /\ \E d \in Steps("projects-list") : trace[d].ok
    /\ IF cmd.args = <<>>
       THEN \E r \in ReadsOf("environment") : ReadSelects(r, i)
       ELSE \/ Atoi(cmd.args[1]).ok /\ Atoi(cmd.args[1]).num = i
            \/ /\ ~(Atoi(cmd.args[1]).ok /\ Atoi(cmd.args[1]).num \in 1..Len(projects))
               /\ MatchesArg(i)
               /\ \A j \in 1..(i - 1) : ~MatchesArg(j)

\* the last env select was unauthenticated, found no project, was given an
\* identifier that matches none, or read a line that is no listed number
NothingToSwitchTo ==
    /\ cmd.name = "env select"
    /\ \/ Len(trace) = 1 /\ trace[1].k = "auth-list"
       \/ /\ \E d \in Steps("projects-list") : trace[d].ok
          /\ \/ projects = <<>>
             \/ cmd.args # <<>> /\ ~\E i \in 1..Len(projects) : ResolvesTo(i)
             \/ /\ cmd.args = <<>>
                /\ \E r \in ReadsOf("environment") : trace[r].ok
                /\ ~\E i \in 1..Len(projects) : ResolvesTo(i)

\* C21: env select runs gcloud config set project only for the listed
\* project its identifier or its input resolves to, and the current project
\* changes only to that project and only when the command succeeds; when it
\* is unauthenticated, lists no project, is given an identifier that matches
\* none or reads a line that is not a number in 1..len(projects), it runs no
\* set project, leaves the current project as it was and returns nil.
C21_SwitchOnlyWhenResolved ==
    [][ cmd'.name = "env select" =>
          /\ \A s \in Steps("set-project")' :
                /\ \E i \in 1..Len(projects) :
                      ResolvesTo(i)' /\ trace'[s].a = projects[i].ProjectID
                /\ curProject' = IF trace'[s].ok THEN trace'[s].a ELSE curProject
          /\ Steps("set-project")' = {} => curProject' = curProject
          /\ NothingToSwitchTo' =>
                /\ Steps("set-project")' = {}
                /\ curProject' = curProject
                /\ ret' = Nil ]_vars

\* with a project selected, env select read a line that is no number and
\* left the selected project alone
C21_Witness ==
    /\ cmd.name = "env select"
    /\ cmd.args = <<>>
    /\ \E r \in ReadsOf("environment") : trace[r].b = <<"x">>
    /\ curProject \in ProjectIDs
    /\ Steps("set-project") = {}
    /\ ret = Nil

\* what a selection function is to return for the line it read
SelectionRule(cands, r, none) ==
    LET e == r.ev[1]
        input == TrimSpace(e.b)
        n == Atoi(input)
    IN  /\ Len(r.ev) = 1 /\ e.k = "read"
        /\ IF ~e.ok THEN r.err = <<"failed to read input">> /\ r.val = none
           ELSE IF n.ok /\ n.num >= 1 /\ n.num <= Len(cands)
           THEN r.err = Nil /\ r.val = cands[n.num]
           ELSE IF input = <<"q">>
           THEN r.err = <<"cancelled by user">> /\ r.val = none
           ELSE r.err = <<"invalid selection: ">> \o input /\ r.val = none
        /\ r.err = Nil => \E i \in 1..Len(cands) : r.val = cands[i]

\* C22: SelectPod, and SelectCluster given two or more clusters, return the
\* n-th candidate when the trimmed line is an integer n within 1..number of
\* candidates, the error cancelled by user for q, and an invalid selection
\* error for every other line; what they return on success is one of the
\* candidates they displayed, the one displayed as line n.  (Pods and
\* clusters never change, so the states between commands give every input.)
C22_SelectionByNumber ==
    cmd.name = "none" =>
    /\ ApplicationPods # <<>> =>
          \A r \in SelectPod(ApplicationPods) :
              /\ SelectionRule(ApplicationPods, r, <<>>)
              /\ \A i \in 1..Len(ApplicationPods) :
                    r.out[i] = <<"pod", DigitChars[i + 1], ". ">> \o ApplicationPods[i]
    /\ \A p \in ProjectIDs :
          LET cl == (CHOOSE g \in GetGKEClusters(p) : g.err = Nil).val
          IN  Len(cl) >= 2 =>
                  \A r \in SelectCluster(cl) :
                      /\ SelectionRule(cl, r, NoCluster)
                      /\ \A i \in 1..Len(cl) : r.out[i] = <<"menu", cl[i].Name>>

\* cluster select showed two clusters, read 2 and configured kubectl for
\* the second of them
C22_Witness ==
    /\ cmd.name = "cluster select"
    /\ cmd.args = <<>>
    /\ \E r \in ReadsOf("cluster") :
          /\ trace[r].b = <<"2">>
          /\ r < Len(trace)
          /\ trace[r + 1].k = "get-credentials"
          /\ trace[r + 1].a = <<clusters[trace[r + 1].b][2][1]>>
    /\ out[2][1] = "menu"

LevelFlags == <<"error", "warn", "info", "debug">>

\* the level flags among the arguments of the last command, as positions
\* in LevelFlags
GivenLevels ==
    {l \in 1..4 : \E i \in 1..Len(cmd.args) :
        cmd.args[i] = << <<"--error">>, <<"--warn">>, <<"--info">>, <<"--debug">> >>[l]}

\* the steps of the last command that filter by a level
FilterSteps == Steps("grep-start") \cup Steps("grep")

ErrorSpellings == {"error", "err", "ERROR", "Error", "ERR", "Err"}

WarnSpellings == {"warn", "warning", "WARN", "Warn", "WARNING", "Warning"}

InfoSpellings == {"info", "INFO", "Info"}

DebugSpellings == {"debug", "DEBUG", "Debug"}

OtherLevels == {"", "trace", "TRACE", "verbose", "errors"}

\* C24: getLogLevelPatterns gives ERROR, FATAL, Exception, Error for error
\* and err, WARN, WARNING for warn and warning, INFO for info, DEBUG for
\* debug, in any letter case, and nothing for any other level; viewPodLogs
\* runs kubectl logs through grep with those patterns exactly when the
\* level is not empty and has patterns, and runs kubectl logs alone
\* otherwise; kubectl logs gets -f exactly when follow is set.
C24_PatternsAndFollow ==
    /\ cmd.name = "none" =>
          /\ \A l \in ErrorSpellings :
                getLogLevelPatterns(l) = <<"ERROR", "FATAL", "Exception", "Error">>
          /\ \A l \in WarnSpellings : getLogLevelPatterns(l) = <<"WARN", "WARNING">>
          /\ \A l \in InfoSpellings : getLogLevelPatterns(l) = <<"INFO">>
          /\ \A l \in DebugSpellings : getLogLevelPatterns(l) = <<"DEBUG">>
          /\ \A l \in OtherLevels : getLogLevelPatterns(l) = <<>>
          /\ \A follow \in BOOLEAN :
             \A level \in ErrorSpellings \cup WarnSpellings \cup InfoSpellings
                           \cup DebugSpellings \cup OtherLevels :
             \A r \in viewPodLogs(<<"default", "/", "web">>, follow, level) :
                 LET filtered == level \notin OtherLevels
                 IN  /\ r.ev # <<>>
                     /\ r.ev[1].k = IF filtered THEN "logs-start" ELSE "logs"
                     /\ ~filtered => Len(r.ev) = 1
                     /\ \A j \in 1..Len(r.ev) :
                           /\ r.ev[j].k \in {"logs", "logs-start"} =>
                                 /\ r.ev[j].c = IF follow THEN <<"-f">> ELSE <<>>
                                 /\ r.ev[j].a = <<"default">> /\ r.ev[j].b = <<"web">>
                           /\ r.ev[j].k \in {"grep", "grep-start"} =>
                                 r.ev[j].a = getLogLevelPatterns(level)
                     /\ r.err = Nil =>
                           (filtered <=> r.ev[Len(r.ev)].k = "grep")
    /\ cmd.name \in {"pod logs", "logs", "rails logs"} =>
          /\ \A j \in Steps("logs") \cup Steps("logs-start") :
                trace[j].c = <<"-f">>
                   <=> \E i \in 1..Len(cmd.args) : cmd.args[i] = <<"--follow">>
          /\ \A j \in Steps("logs") \cup Steps("logs-start") :
                trace[j].c \in {<<>>, <<"-f">>}

\* logs --follow --info --debug followed a pod's log through grep for INFO
C24_Witness ==
    /\ cmd.name = "logs"
    /\ \E i \in 1..Len(cmd.args) : cmd.args[i] = <<"--follow">>
    /\ \E j \in Steps("logs") : trace[j].ok /\ trace[j].c = <<"-f">>
    /\ \E j \in Steps("grep") : trace[j].ok /\ trace[j].a = <<"INFO">>

\* C25: with a level that has patterns viewPodLogs starts kubectl logs
\* before grep; when kubectl logs fails its error is returned and grep is
\* not waited for; when kubectl logs succeeds the result is grep's, so a
\* failing grep makes the command fail although the logs were retrieved.
C25_GrepResultReturned ==
    /\ cmd.name = "none" =>
          \A follow \in BOOLEAN :
          \A level \in ErrorSpellings \cup WarnSpellings \cup InfoSpellings \cup DebugSpellings :
              LET rs == viewPodLogs(<<"default", "/", "web">>, follow, level)
              IN  /\ \A r \in rs :
                        /\ r.ev # <<>> /\ r.ev[1].k = "logs-start"
                        /\ \A j \in 1..Len(r.ev) :
                              /\ r.ev[j].k = "grep-start" => j = 2 /\ r.ev[1].ok
                              /\ r.ev[j].k = "logs" /\ ~r.ev[j].ok =>
                                    r.err = ExitError /\ j = Len(r.ev)
                              /\ r.ev[j].k = "logs" /\ r.ev[j].ok =>
                                    /\ Len(r.ev) = j + 1
                                    /\ r.ev[j + 1].k = "grep"
                                    /\ r.err = (IF r.ev[j + 1].ok THEN Nil ELSE ExitError)
                  /\ \E r \in rs : \E j \in 1..Len(r.ev) :
                        r.ev[j].k = "logs" /\ r.ev[j].ok /\ r.err # Nil
    /\ cmd.name \in {"pod logs", "logs", "rails logs"} =>
          /\ \A j \in Steps("grep-start") : j > 1 /\ trace[j - 1].k = "logs-start"
          /\ \A j \in Steps("grep") :
                /\ trace[j - 1].k = "logs" /\ trace[j - 1].ok
                /\ ~trace[j].ok => ret # Nil
          /\ ~AllFlag =>
                \A j \in Steps("logs") :
                    FilterSteps # {} /\ ~trace[j].ok =>
                        j = Len(trace) /\ ret # Nil

\* pod logs with a level retrieved the log, grep failed, the command failed
C25_Witness ==
    /\ cmd.name = "pod logs"
    /\ \E j \in Steps("grep") : ~trace[j].ok /\ trace[j - 1].k = "logs" /\ trace[j - 1].ok
    /\ ret # Nil
    /\ \E i \in 1..Len(out) : ErrorLine(out[i])

\* pod identifiers as a caller can pass them
PodIdentifiers ==
    { <<"default", "/", "web">>, <<"app", "/", "worker">>, <<"/", "web">>, <<"/">>,
      <<>>, <<"web">>, <<"default", "web">>, <<"default", "/", "web", "/", "c">>,
      <<"default", "/", "/", "web">>, <<"/", "default", "/", "web">> }

\* the number of "/" in an identifier
Slashes(id) == Cardinality({i \in 1..Len(id) : id[i] = "/"})

\* the steps of a result are all for the pod of this namespace and name
StepsFor(r, namespace, podName) ==
    /\ r.ev # <<>>
    /\ \A j \in 1..Len(r.ev) :
          r.ev[j].k \in {"logs", "logs-start", "exec"} =>
              r.ev[j].a = namespace /\ r.ev[j].b = podName

\* C26: viewPodLogs, connectToShell and connectToRailsConsole take a pod
\* identifier exactly when it has one "/" (two parts); any other identifier
\* gives "invalid pod format" and no external command is run; every
\* identifier FindApplicationPods builds is taken, and its two parts are
\* the namespace and the name of the pod it was built from.
C26_PodIdentifierFormat ==
    /\ cmd.name = "none" =>
          /\ \A id \in PodIdentifiers :
                LET rs == viewPodLogs(id, FALSE, "") \cup viewPodLogs(id, TRUE, "error")
                            \cup connectToShell(id) \cup connectToRailsConsole(id)
                IN  /\ Len(Split(id)) = 2 <=> Slashes(id) = 1
                    /\ Slashes(id) # 1 =>
                          \A r \in rs :
                              r.err = <<"invalid pod format: ">> \o id /\ r.ev = <<>>
                    /\ Slashes(id) = 1 =>
                          \A r \in rs :
                              /\ r.err = Nil \/ r.err[1] # "invalid pod format: "
                              /\ StepsFor(r, Split(id)[1], Split(id)[2])
          /\ Len(ApplicationPods) <= Len(pods)
          /\ \A i \in 1..Len(ApplicationPods) :
                LET id == ApplicationPods[i]
                IN  /\ Len(Split(id)) = 2
                    /\ \E p \in 1..Len(pods) :
                          /\ Split(id)[1] = <<pods[p].ns>>
                          /\ Split(id)[2] = <<pods[p].name>>
                          /\ ~isSystemNamespace(pods[p].ns)
                    /\ \A r \in viewPodLogs(id, FALSE, "") \cup connectToShell(id)
                                \cup connectToRailsConsole(id) :
                          StepsFor(r, Split(id)[1], Split(id)[2])
    /\ cmd.name \in PodCommands =>
          /\ ret = Nil \/ ret[1] # "invalid pod format: "
          /\ \A j \in Steps("logs") \cup Steps("logs-start") \cup Steps("exec") :
                \E p \in 1..Len(pods) :
                    trace[j].a = <<pods[p].ns>> /\ trace[j].b = <<pods[p].name>>

\* shell opened a shell in a pod that FindApplicationPods had returned
C26_Witness ==
    /\ cmd.name = "shell"
    /\ \E j \in Steps("get-pods") : trace[j].ok
    /\ \E j \in Steps("exec") : \E i \in 1..Len(ApplicationPods) :
          /\ trace[j].ok
          /\ Split(ApplicationPods[i]) = <<trace[j].a, trace[j].b>>

\* the lines of cluster list that show a cluster, and those marked [x]
ClusterRows == {i \in 1..Len(out) : Len(out[i]) = 5 /\ out[i][1] \in {"- [x]", "- [ ]"}}

MarkedRows == {i \in ClusterRows : out[i][1] = "- [x]"}

\* C27 as claimed: cluster list shows [x] only on the cluster of the current
\* kubectl context, so on at most one of the listed clusters, and on none
\* when there is no current context.
C27_OnlyActiveClusterMarked ==
    cmd.name = "cluster list" =>
        /\ \A i \in MarkedRows :
              /\ curProject \in ProjectIDs
              /\ kubeCtx = GkeContext(curProject,
                                      [Name |-> out[i][4], Location |-> out[i][5]])
        /\ Cardinality(MarkedRows) <= 1
        /\ kubeCtx = <<>> => MarkedRows = {}
        /\ (\E j \in Steps("current-context") : ~trace[j].ok) => MarkedRows = {}

WarnedNoAuthentication == \E i \in 1..Len(out) : out[i] = <<"No active authentication found">>

\* C28: logout runs gcloud auth revoke only after the query for the active
\* account has given a non-empty account, once, and for that account; when
\* the query fails or gives no account it prints the warning, revokes
\* nothing and ends with nil and exit status 0; it ends with an error and
\* exit status 1 only when gcloud is not found or the revoke fails.
C28_LogoutRevokesActiveAccount ==
    cmd.name = "logout" =>
        /\ \A j \in Steps("auth-revoke") :
              /\ Steps("auth-revoke") = {j}
              /\ j > 1 /\ trace[j - 1].k = "auth-list" /\ trace[j - 1].ok
              /\ trace[j - 1].b # <<>>
              /\ trace[j].a = trace[j - 1].b
              /\ trace[j].a = ActiveAccount
        /\ \A j \in Steps("auth-list") :
              (~trace[j].ok \/ TrimSpace(trace[j].b) = <<>>) =>
                  /\ WarnedNoAuthentication
                  /\ Steps("auth-revoke") = {}
                  /\ ret = Nil /\ exitCode = 0
        /\ exitCode = (IF ret = Nil THEN 0 ELSE 1)
        /\ ret # Nil =>
              \/ \E j \in Steps("look-path") : ~trace[j].ok /\ j = Len(trace)
              \/ \E j \in Steps("auth-revoke") : ~trace[j].ok /\ j = Len(trace)
        /\ (\E j \in 1..Len(trace) :
                trace[j].k \in {"look-path", "auth-revoke"} /\ ~trace[j].ok) => ret # Nil

\* logout found no active account: it warned, revoked nothing and exited 0
C28_Witness ==
    /\ cmd.name = "logout"
    /\ \E j \in Steps("auth-list") : ~trace[j].ok
    /\ WarnedNoAuthentication
    /\ Steps("auth-revoke") = {}
    /\ ret = Nil /\ exitCode = 0

\* the steps at which kubectl logs is started for a pod
LaunchSteps ==
    Steps("logs-start")
    \cup {j \in Steps("logs") : j = 1 \/ trace[j - 1].k \notin {"logs-start", "grep-start"}}

\* the launches for the pod with this identifier
LaunchesOf(id) == {j \in LaunchSteps : trace[j].a \o <<"/">> \o trace[j].b = id}

\* C29: pod logs --all reads no pod selection; once FindApplicationPods has
\* answered it starts kubectl logs once for each pod of that list and for
\* no other pod, and with an empty list it prints the notice, starts
\* nothing and returns nil; without --all it starts kubectl logs for at
\* most one pod, the pod of that list that the line read selects.
C29_AllPodsOrOneSelected ==
    cmd.name = "pod logs" =>
        /\ AllFlag =>
              /\ ReadsOf("pod") = {}
              /\ (\E g \in Steps("get-pods") : trace[g].ok) =>
                    /\ \A i \in 1..Len(ApplicationPods) :
                          Cardinality(LaunchesOf(ApplicationPods[i])) = 1
                    /\ \A j \in LaunchSteps :
                          \E i \in 1..Len(ApplicationPods) : j \in LaunchesOf(ApplicationPods[i])
                    /\ Len(ApplicationPods) = 0 =>
                          /\ Printed(<<"No application pods found">>)
                          /\ trace[Len(trace)].k = "get-pods"
                          /\ ret = Nil
              /\ (\A g \in Steps("get-pods") : ~trace[g].ok) => LaunchSteps = {}
        /\ ~AllFlag =>
              /\ Cardinality(LaunchSteps) <= 1
              /\ \A j \in LaunchSteps :
                    \E r \in ReadsOf("pod") : \E i \in 1..Len(ApplicationPods) :
                        /\ r < j
                        /\ ReadSelects(r, i)
                        /\ j \in LaunchesOf(ApplicationPods[i])
              /\ \A r \in ReadsOf("pod") : \A i \in 1..Len(ApplicationPods) :
                    ReadSelects(r, i) => Cardinality(LaunchesOf(ApplicationPods[i])) = 1

\* pod logs --all showed the logs of two application pods without a prompt
C29_Witness ==
    /\ cmd.name = "pod logs"
    /\ AllFlag
    /\ Len(ApplicationPods) = 2
    /\ \A i \in 1..2 : \E j \in LaunchesOf(ApplicationPods[i]) : trace[j].ok
    /\ ReadsOf("pod") = {}
    /\ ret = Nil

====
